---- MODULE Spec2Model ----
(***************************************************************************)
(* Forecast and insight pipeline of steam-discount-forecast:               *)
(*   ModelService    (src/src/steam_sale/models/predictor.py)              *)
(*   InsightService  (src/src/steam_sale/insights.py)                      *)
(*   FeatureBuilder  (src/src/steam_sale/feature_builder.py)               *)
(*   ItadClient      (src/src/steam_sale/itad_client.py)                   *)
(*                                                                         *)
(* Every component is synchronous.  A call is one action: it reads the     *)
(* component's state and its arguments, and leaves its outcome (the value  *)
(* returned or the exception raised) in the component's *_ret variable.    *)
(* The caller then drops the outcome (discard) before the next call.       *)
(*                                                                         *)
(* Python values are records [t, n]: t is the Python type, n the number    *)
(* the value carries.  Scores and thresholds are in hundredths.            *)
(***************************************************************************)
EXTENDS Integers, Sequences, FiniteSets, TLC

VARIABLES
    model_30d,        \* ModelService.model_30d: a classifier handle or NoModel
    model_60d,        \* ModelService.model_60d
    feature_names,    \* ModelService.feature_names: NoFeatureNames or a sequence
    itad,             \* ModelService.itad: NoItad or the mock ItadClient
    load_completed,   \* history: some load() ran to its last line
    predict_ret,      \* outcome of the last load()/predict() call
    openai_enabled,   \* InsightService.openai_enabled
    openai_client,    \* InsightService._openai_client is set
    openai_model,     \* InsightService._openai_model is set
    news_client,      \* InsightService.news_client: [api_key]
    insight_ret,      \* outcome of the last InsightService call
    franchise_map,    \* FeatureBuilder.franchise_map: cluster name -> median
    build_ret,        \* outcome of the last build_from_itad call
    itad_client,      \* the module's ItadClient: [api_key, base_url]
    itad_ret          \* outcome of the last ItadClient call

predictor_vars == <<model_30d, model_60d, feature_names, itad, load_completed, predict_ret>>

insight_vars == <<openai_enabled, openai_client, openai_model, news_client, insight_ret>>

builder_vars == <<franchise_map, build_ret>>

itad_vars == <<itad_client, itad_ret>>

vars == <<predictor_vars, insight_vars, builder_vars, itad_vars>>

-----------------------------------------------------------------------------
(* Bounds of the model *)

\* length of the feature schema read from the feature-list file
MaxSchemaLen == 2

\* number of distinct well-formed classifier artifacts a model path can hold
NumArtifacts == 2

\* number of lines in a text the generative API returns
MaxRawLines == 4

\* number of keys of a game metadata dict
MaxGameKeys == 2

\* number of deals in a prices entry
MaxDeals == 2

\* number of items in a search reply
MaxItems == 2

\* number of keys of a feature map handed to _extract_contextual_factors
MaxFactorKeys == 2

\* articles in a payload of the news API
MaxArticles == 2

-----------------------------------------------------------------------------
(* Python values *)

None == [t |-> "None", n |-> 0, s |-> <<>>]

Num(n) == [t |-> "num", n |-> n, s |-> <<>>]

\* a str holding the decimal numeral of n, such as "3"
NumStr(n) == [t |-> "numstr", n |-> n, s |-> <<>>]

\* a str that is no numeral, given by its characters
Str(s) == [t |-> "str", n |-> 0, s |-> s]

\* "weird"
BadStr == Str(<<"w", "e", "i", "r", "d">>)

\* a list or dict value
ListVal == [t |-> "list", n |-> 0, s |-> <<>>]

\* float('inf')
Inf == [t |-> "inf", n |-> 0, s |-> <<>>]

\* Python's float(v): the number, or the exception it raises
float(v) ==
    CASE v.t \in {"num", "numstr", "bool"} -> [exc |-> "none", n |-> v.n, inf |-> FALSE]
      [] v.t = "inf"  -> [exc |-> "none", n |-> 0, inf |-> TRUE]
      [] v.t = "str"  -> [exc |-> "ValueError", n |-> 0, inf |-> FALSE]
      [] OTHER        -> [exc |-> "TypeError", n |-> 0, inf |-> FALSE]

-----------------------------------------------------------------------------
(* ModelService: models/predictor.py *)

THIRTY == "30d"

SIXTY == "60d"

\* Horizon.is_valid with its last line returning True
is_valid_fallthrough(value) ==
    IF value = "30d" THEN TRUE
    ELSE IF value = "60d" THEN TRUE
    ELSE TRUE

\* Horizon.is_valid
is_valid(value) ==
    IF value = THIRTY THEN TRUE
    ELSE IF value = SIXTY THEN TRUE
    ELSE FALSE

\* model_30d / model_60d before load(): Python None
NoModel == 0

\* an object joblib.load() can return that has no predict_proba method
NoProbaArtifact == NumArtifacts + 1

Artifacts == 1 .. NoProbaArtifact

hasattr_predict_proba(model) == model \in 1 .. NumArtifacts

\* feature_names before load(): Python None
NoFeatureNames == <<"None">>

\* ModelService.default_threshold = 0.5, in hundredths
default_threshold == 50

\* the names FeatureBuilder.build_from_itad checks for, in the order of its list
AllFeatureNames ==
    << "log_launch_price", "publisher_size_log", "release_year", "release_quarter",
       "release_month", "release_weekday", "is_holiday_season", "is_summer_sale_window",
       "early_access", "mature", "Achievements", "is_multiplatform_refined",
       "exclusive_steam", "is_multi_store_pc", "is_cross_platform",
       "genre_cluster_strategy_sim", "genre_cluster_mmo", "is_autumn_sale_window",
       "within_7d_of_steam_sale", "franchise_count_prev", "developer_size_log",
       "publisher_size_bin__Small", "publisher_size_bin__Medium",
       "publisher_size_bin__Large", "publisher_size_bin__Major",
       "developer_size_bin__Solo", "developer_size_bin__Small",
       "developer_size_bin__Mid", "developer_size_bin__Large",
       "price_x_multiplatform", "publisher_x_multiplatform",
       "developer_x_multiplatform", "price_x_pubsize", "price_x_devsize" >>

\* what the feature-list file can hold: the empty list or the schema
FeatureFiles == { <<>>, SubSeq(AllFeatureNames, 1, MaxSchemaLen) }

SchemaKeys == { AllFeatureNames[i] : i \in 1 .. MaxSchemaLen }

\* values a caller's feature map can bind a name to
FeatureValues == { None, Num(1), NumStr(1), BadStr, ListVal }

FeatureMaps == UNION { [D -> FeatureValues] : D \in SUBSET SchemaKeys }

Horizons == { THIRTY, SIXTY, "45d" }

\* the threshold argument: None (not supplied) or a number in [0, 1]
Thresholds == { None, Num(0), Num(70) }

\* class-1 probabilities the classifier can give
Scores == { 0, 50, 70 }

\* mock ItadClient of predictor.py
NoItad == [set |-> FALSE, api_key |-> FALSE]

Predictor_ItadClient(api_key) == [set |-> TRUE, api_key |-> api_key]

Predictor_is_enabled(client) == client.api_key

\* enrich_features carrying out its placeholder: features["latest_price"] = ...
enrich_features_latest_price(client, features) ==
    IF ~Predictor_is_enabled(client) THEN features
    ELSE ("latest_price" :> Num(1)) @@ features

\* ItadClient.enrich_features: every path returns the map it was given
enrich_features(client, features) ==
    IF ~Predictor_is_enabled(client) THEN features ELSE features

NoKeys == <<>>

Idle == [op |-> "none", status |-> "idle", exc |-> "none", why |-> "none", keys |-> NoKeys,
         horizon |-> "none", features |-> <<>>, threshold_arg |-> None,
         score |-> 0, threshold |-> 0, will_discount |-> FALSE,
         status_code |-> 0, body |-> {}, features_after |-> <<>>]

Raised(op, exc, why, keys, horizon, features, threshold) ==
    [Idle EXCEPT !.op = op, !.status = "raise", !.exc = exc, !.why = why, !.keys = keys,
                 !.horizon = horizon, !.features = features, !.threshold_arg = threshold]

\* _vectorize, the loop over feature_names from position i on
RECURSIVE vectorize_loop(_, _, _, _, _)
vectorize_loop(names, features, i, vector, missing) ==
    IF i > Len(names)
    THEN IF Len(missing) > 0
         THEN [exc |-> "BadRequestError", why |-> "missing", keys |-> missing, vector |-> <<>>]
         ELSE [exc |-> "none", why |-> "none", keys |-> NoKeys, vector |-> vector]
    ELSE LET name == names[i]
             value == IF name \in DOMAIN features THEN features[name] ELSE None
         IN  IF value = None
             THEN vectorize_loop(names, features, i + 1, vector, Append(missing, name))
             ELSE IF float(value).exc \in {"ValueError", "TypeError"}
                  THEN [exc |-> "BadRequestError", why |-> "not_numeric",
                        keys |-> <<name>>, vector |-> <<>>]
                  ELSE vectorize_loop(names, features, i + 1,
                                      Append(vector, float(value)), missing)

\* _vectorize without its feature_names guard: iterating None raises TypeError
vectorize_no_guard(names, features) ==
    IF names = NoFeatureNames
    THEN [exc |-> "TypeError", why |-> "feature_names", keys |-> NoKeys, vector |-> <<>>]
    ELSE vectorize_loop(names, features, 1, <<>>, <<>>)

\* _vectorize reporting missing names one at a time
vectorize_first_missing(names, features) ==
    IF names = NoFeatureNames \/ names = <<>>
    THEN [exc |-> "ModelNotLoadedError", why |-> "feature_names", keys |-> NoKeys,
          vector |-> <<>>]
    ELSE LET r == vectorize_loop(names, features, 1, <<>>, <<>>)
         IN  IF r.why = "missing" THEN [r EXCEPT !.keys = <<r.keys[1]>>] ELSE r

\* _vectorize putting 0.0 where float() rejects a value
vectorize_default_bad(names, features) ==
    IF names = NoFeatureNames \/ names = <<>>
    THEN [exc |-> "ModelNotLoadedError", why |-> "feature_names", keys |-> NoKeys,
          vector |-> <<>>]
    ELSE vectorize_loop(names,
                        [k \in DOMAIN features |->
                            IF float(features[k]).exc = "none" THEN features[k] ELSE Num(0)],
                        1, <<>>, <<>>)

\* ModelService._vectorize
vectorize(names, features) ==
    IF names = NoFeatureNames \/ names = <<>>
    THEN [exc |-> "ModelNotLoadedError", why |-> "feature_names", keys |-> NoKeys,
          vector |-> <<>>]
    ELSE vectorize_loop(names, features, 1, <<>>, <<>>)

\* the cut of predict testing the threshold for truth instead of for None
cut_of_truthy(threshold) ==
    IF threshold # None /\ float(threshold).n # 0 THEN float(threshold).n
    ELSE default_threshold

\* the cut of predict: the caller's threshold when it is not None
cut_of(threshold) ==
    IF threshold # None THEN float(threshold).n ELSE default_threshold

\* ModelService.predict as a function of the service state, the arguments and what
\* the classifier answers (proba_raises: predict_proba raised; score: its [0][1])
\* features_after is the caller's dict once the call is over: enrich_features is
\* handed the dict itself and returns it, so what it holds then is what the caller
\* sees
predict_outcome(m30, m60, names, client, horizon, features, threshold, proba_raises, score) ==
    IF ~is_valid(horizon)
    THEN [Raised("predict", "BadRequestError", "invalid_horizon", NoKeys,
                 horizon, features, threshold) EXCEPT !.features_after = features]
    ELSE IF m30 = NoModel \/ m60 = NoModel
    THEN [Raised("predict", "ModelNotLoadedError", "models", NoKeys,
                 horizon, features, threshold) EXCEPT !.features_after = features]
    ELSE LET enriched == IF client # NoItad THEN enrich_features(client, features)
                         ELSE features
             X == vectorize(names, enriched)
             model == IF horizon = THIRTY THEN m30 ELSE m60
             out == IF X.exc # "none"
                    THEN Raised("predict", X.exc, X.why, X.keys, horizon, features, threshold)
                    ELSE IF ~hasattr_predict_proba(model)
                    THEN Raised("predict", "ModelNotLoadedError", "predict_proba", NoKeys,
                                horizon, features, threshold)
                    ELSE IF proba_raises
                    THEN Raised("predict", "Exception", "predict_proba", NoKeys,
                                horizon, features, threshold)
                    ELSE [Idle EXCEPT !.op = "predict", !.status = "return",
                                      !.horizon = horizon, !.features = features,
                                      !.threshold_arg = threshold,
                                      !.score = score, !.threshold = cut_of(threshold),
                                      !.will_discount = (score >= cut_of(threshold))]
         IN  [out EXCEPT !.features_after = enriched]

\* ModelService.predict
predict ==
    /\ predict_ret = Idle
    /\ \E horizon \in Horizons, features \in FeatureMaps, threshold \in Thresholds,
          proba_raises \in BOOLEAN, score \in Scores :
          /\ proba_raises => score = 0
          /\ predict_ret' = predict_outcome(model_30d, model_60d, feature_names, itad,
                                            horizon, features, threshold,
                                            proba_raises, score)
    /\ UNCHANGED <<model_30d, model_60d, feature_names, itad, load_completed>>
    /\ UNCHANGED <<insight_vars, builder_vars, itad_vars>>

\* what a path of the settings holds when load() runs: Missing, or its content
Missing == 0

\* ModelService.load: m30, m60 and names are what the three paths hold (Missing or
\* the artifact / list stored there), api_key whether ITAD_API_KEY is set
load_from(m30, m60, names, api_key) ==
    IF m30 = Missing
    THEN /\ predict_ret' = Raised("load", "ModelNotLoadedError", "model_30d", NoKeys,
                                  "none", <<>>, None)
         /\ UNCHANGED <<model_30d, model_60d, feature_names, itad, load_completed>>
    ELSE IF m60 = Missing
    THEN /\ model_30d' = m30
         /\ predict_ret' = Raised("load", "ModelNotLoadedError", "model_60d", NoKeys,
                                  "none", <<>>, None)
         /\ UNCHANGED <<model_60d, feature_names, itad, load_completed>>
    ELSE IF names = NoFeatureNames
    THEN /\ model_30d' = m30
         /\ model_60d' = m60
         /\ predict_ret' = Raised("load", "ModelNotLoadedError", "features", NoKeys,
                                  "none", <<>>, None)
         /\ UNCHANGED <<feature_names, itad, load_completed>>
    ELSE /\ model_30d' = m30
         /\ model_60d' = m60
         /\ feature_names' = names
         /\ itad' = Predictor_ItadClient(api_key)
         /\ load_completed' = TRUE
         /\ predict_ret' = [Idle EXCEPT !.op = "load", !.status = "return"]

load ==
    /\ predict_ret = Idle
    /\ \E m30 \in {Missing} \cup Artifacts, m60 \in {Missing} \cup Artifacts,
          names \in {NoFeatureNames} \cup FeatureFiles, api_key \in BOOLEAN :
          load_from(m30, m60, names, api_key)
    /\ UNCHANGED <<insight_vars, builder_vars, itad_vars>>

\* the caller is done with the outcome of the call
discard ==
    /\ predict_ret # Idle
    /\ predict_ret' = Idle
    /\ UNCHANGED <<model_30d, model_60d, feature_names, itad, load_completed>>
    /\ UNCHANGED <<insight_vars, builder_vars, itad_vars>>

\* model_service = ModelService()
PredictorInit ==
    /\ model_30d = NoModel
    /\ model_60d = NoModel
    /\ feature_names = NoFeatureNames
    /\ itad = NoItad
    /\ load_completed = FALSE
    /\ predict_ret = Idle

-----------------------------------------------------------------------------
(* Python str operations; a str is the sequence of its characters *)

\* str.lower() on one character
lower_char(c) ==
    CASE c = "A" -> "a"
      [] c = "B" -> "b"
      [] c = "C" -> "c"
      [] c = "D" -> "d"
      [] c = "E" -> "e"
      [] c = "F" -> "f"
      [] c = "G" -> "g"
      [] c = "H" -> "h"
      [] c = "I" -> "i"
      [] c = "J" -> "j"
      [] c = "K" -> "k"
      [] c = "L" -> "l"
      [] c = "M" -> "m"
      [] c = "N" -> "n"
      [] c = "O" -> "o"
      [] c = "P" -> "p"
      [] c = "Q" -> "q"
      [] c = "R" -> "r"
      [] c = "S" -> "s"
      [] c = "T" -> "t"
      [] c = "U" -> "u"
      [] c = "V" -> "v"
      [] c = "W" -> "w"
      [] c = "X" -> "x"
      [] c = "Y" -> "y"
      [] c = "Z" -> "z"
      [] OTHER -> c

\* str.lower()
lower(s) == [i \in 1 .. Len(s) |-> lower_char(s[i])]

\* str.strip(chars): drop the characters of chars from both ends
RECURSIVE strip_chars(_, _)
strip_chars(s, chars) ==
    IF Len(s) = 0 THEN s
    ELSE IF s[1] \in chars THEN strip_chars(Tail(s), chars)
    ELSE IF s[Len(s)] \in chars THEN strip_chars(SubSeq(s, 1, Len(s) - 1), chars)
    ELSE s

\* str.strip()
strip(s) == strip_chars(s, {" "})

\* needle in hay
contains(hay, needle) ==
    \E i \in 1 .. (Len(hay) - Len(needle) + 1) : SubSeq(hay, i, i + Len(needle) - 1) = needle

\* bool(v)
bool(v) ==
    CASE v.t = "None" -> FALSE
      [] v.t \in {"num", "bool"} -> v.n # 0
      [] v.t = "str" -> Len(v.s) > 0
      [] OTHER -> TRUE

Bool(b) == [t |-> "bool", n |-> IF b THEN 1 ELSE 0, s |-> <<>>]

\* int(v): the number, or the exception it raises
int(v) ==
    CASE v.t \in {"num", "numstr", "bool"} -> [exc |-> "none", n |-> v.n]
      [] v.t = "inf"  -> [exc |-> "OverflowError", n |-> 0]
      [] v.t = "str"  -> [exc |-> "ValueError", n |-> 0]
      [] OTHER        -> [exc |-> "TypeError", n |-> 0]

\* dict.get(key, default)
get(dict, key, default) == IF key \in DOMAIN dict THEN dict[key] ELSE default

\* the dicts binding the keys D to values of the record of sets values
RECURSIVE dicts_over(_, _)
dicts_over(values, D) ==
    IF D = {} THEN { <<>> }
    ELSE LET k == CHOOSE x \in D : TRUE IN
         { (k :> v) @@ d : v \in values[k], d \in dicts_over(values, D \ {k}) }

\* the dicts with at most n of the keys of values
dicts_upto(values, n) ==
    UNION { dicts_over(values, D) : D \in { E \in SUBSET DOMAIN values : Cardinality(E) <= n } }

-----------------------------------------------------------------------------
(* NewsClient: insights.py *)

sale_keywords ==
    << <<"s", "t", "e", "a", "m", " ", "s", "a", "l", "e">>,
       <<"s", "a", "l", "e">>,
       <<"d", "i", "s", "c", "o", "u", "n", "t">>,
       <<"d", "e", "a", "l">>,
       <<"b", "u", "n", "d", "l", "e">>,
       <<"p", "r", "o", "m", "o">>,
       <<"p", "r", "o", "m", "o", "t", "i", "o", "n">>,
       <<"o", "f", "f">>,
       <<"%", " ", "o", "f", "f">>,
       <<"p", "r", "i", "c", "e", " ", "c", "u", "t">>,
       <<"p", "r", "i", "c", "e", " ", "d", "r", "o", "p">>,
       <<"c", "l", "e", "a", "r", "a", "n", "c", "e">>,
       <<"f", "l", "a", "s", "h", " ", "s", "a", "l", "e">>,
       <<"l", "i", "m", "i", "t", "e", "d", " ", "t", "i", "m", "e">>,
       <<"s", "p", "e", "c", "i", "a", "l", " ", "o", "f", "f", "e", "r">>,
       <<"h", "o", "l", "i", "d", "a", "y", " ", "s", "a", "l", "e">>,
       <<"b", "l", "a", "c", "k", " ", "f", "r", "i", "d", "a", "y">> >>

\* _is_relevant_article comparing the title as it is written
is_relevant_case_sensitive(title, game_name) ==
    IF ~bool(title) THEN FALSE
    ELSE LET game_lower == strip(lower(IF bool(game_name) THEN game_name.s ELSE <<>>))
         IN  IF Len(game_lower) > 0 /\ contains(title.s, game_lower) THEN TRUE
             ELSE IF \E i \in 1 .. Len(sale_keywords) : contains(title.s, sale_keywords[i])
                  THEN TRUE
                  ELSE FALSE

\* NewsClient._is_relevant_article; title and game_name are Python values
is_relevant_article(title, game_name) ==
    IF ~bool(title) THEN FALSE
    ELSE LET title_lower == lower(title.s)
             game_lower == strip(lower(IF bool(game_name) THEN game_name.s ELSE <<>>))
         IN  IF Len(game_lower) > 0 /\ contains(title_lower, game_lower) THEN TRUE
             ELSE IF \E i \in 1 .. Len(sale_keywords) : contains(title_lower, sale_keywords[i])
                  THEN TRUE
                  ELSE FALSE

\* NewsClient.is_enabled
News_is_enabled(client) == client.api_key

\* an article of the payload: a dict with a title and a source, a dict whose source is
\* no dict, or something that is no dict
Article(title) == [kind |-> "dict", title |-> title]

NotADictArticle == [kind |-> "not_dict", title |-> None]

BadSourceArticle == [kind |-> "bad_source", title |-> None]

\* what requests.get gives fetch_game_news: kind is "timeout" (requests raises),
\* "non_200", "bad_json" (resp.json() raises), "not_dict" (the JSON is no object) or "ok"
Http(kind, articles) == [kind |-> kind, articles |-> articles]

\* the loop of fetch_game_news over articles[:limit]; a malformed article raises inside
\* the try block, and the except clause returns []
RECURSIVE news_loop(_, _, _, _)
news_loop(articles, game_name, i, results) ==
    IF i > Len(articles) THEN results
    ELSE LET article == articles[i] IN
         IF article.kind # "dict" THEN <<>>
         ELSE IF ~bool(article.title)
              THEN news_loop(articles, game_name, i + 1, results)
         ELSE IF article.title.t # "str" THEN <<>>
         ELSE IF ~is_relevant_article(article.title, game_name)
              THEN news_loop(articles, game_name, i + 1, results)
         ELSE news_loop(articles, game_name, i + 1,
                        Append(results, [title |-> article.title.s]))

\* NewsClient.fetch_game_news
fetch_game_news(client, game_name, limit, http) ==
    IF ~News_is_enabled(client) THEN <<>>
    ELSE IF http.kind # "ok" THEN <<>>
    ELSE news_loop(SubSeq(http.articles, 1, IF Len(http.articles) < limit
                                             THEN Len(http.articles) ELSE limit),
                   game_name, 1, <<>>)

-----------------------------------------------------------------------------
(* InsightService: insights.py *)

\* InsightService.__post_init__: the fields after construction.  enabled_arg is the
\* constructor's openai_enabled, configured says that OPENAI_API_KEY and OPENAI_MODEL
\* are set and the openai package imported, client_raises that OpenAI(...) raised
post_init(enabled_arg, configured, client_raises, news_api_key) ==
    IF configured
    THEN IF ~client_raises
         THEN [openai_enabled |-> TRUE, openai_client |-> TRUE, openai_model |-> TRUE,
               news_client |-> [api_key |-> news_api_key]]
         ELSE [openai_enabled |-> enabled_arg, openai_client |-> FALSE,
               openai_model |-> FALSE, news_client |-> [api_key |-> news_api_key]]
    ELSE [openai_enabled |-> FALSE, openai_client |-> FALSE, openai_model |-> FALSE,
          news_client |-> [api_key |-> news_api_key]]

\* a fixed sentence of the service, held as one element
Sentence(text) == <<text>>

\* _make_confidence_comment with exclusive lower bounds
make_confidence_comment_strict(score, horizon, will_discount) ==
    IF score > 85 THEN [band |-> "Very strong chance", horizon |-> horizon]
    ELSE IF score > 65 THEN [band |-> "Good chance", horizon |-> horizon]
    ELSE IF score > 45
         THEN IF will_discount
              THEN [band |-> "Borderline case, but slightly in favor", horizon |-> horizon]
              ELSE [band |-> "Borderline probability", horizon |-> horizon]
    ELSE [band |-> "Unlikely", horizon |-> horizon]

\* InsightService._make_confidence_comment; score in hundredths
make_confidence_comment(score, horizon, will_discount) ==
    IF score >= 85 THEN [band |-> "Very strong chance", horizon |-> horizon]
    ELSE IF score >= 65 THEN [band |-> "Good chance", horizon |-> horizon]
    ELSE IF score >= 45
         THEN IF will_discount
              THEN [band |-> "Borderline case, but slightly in favor", horizon |-> horizon]
              ELSE [band |-> "Borderline probability", horizon |-> horizon]
    ELSE [band |-> "Unlikely", horizon |-> horizon]

\* features.get(name) == 1
equals_one(features, name) ==
    LET v == get(features, name, None) IN v.t \in {"num", "bool"} /\ v.n = 1

\* rule families 1, 3 and 4 of _extract_contextual_factors: int() of one feature
\* under try/except (TypeError, ValueError); reached tells whether int(v) met the test
int_rule(features, name, at_least, exactly, factor) ==
    LET v == get(features, name, None) IN
    IF v = None THEN [exc |-> "none", factors |-> <<>>]
    ELSE IF int(v).exc \in {"TypeError", "ValueError"} THEN [exc |-> "none", factors |-> <<>>]
    ELSE IF int(v).exc # "none" THEN [exc |-> int(v).exc, factors |-> <<>>]
    ELSE IF (exactly /\ int(v).n = at_least) \/ (~exactly /\ int(v).n >= at_least)
         THEN [exc |-> "none", factors |-> <<factor>>]
         ELSE [exc |-> "none", factors |-> <<>>]

\* the publisher-size bins tested Small first
publisher_rule_small_first(features) ==
    IF equals_one(features, "publisher_size_bin__Small")
    THEN [exc |-> "none", factors |-> <<"smaller publisher">>]
    ELSE IF equals_one(features, "publisher_size_bin__Medium")
    THEN [exc |-> "none", factors |-> <<"mid-sized publisher">>]
    ELSE IF equals_one(features, "publisher_size_bin__Large")
    THEN [exc |-> "none", factors |-> <<"large publisher">>]
    ELSE IF equals_one(features, "publisher_size_bin__Major")
    THEN [exc |-> "none", factors |-> <<"major publisher">>]
    ELSE [exc |-> "none", factors |-> <<>>]

\* rule family 2: the publisher-size bins, Major first
publisher_rule(features) ==
    IF equals_one(features, "publisher_size_bin__Major")
    THEN [exc |-> "none", factors |-> <<"major publisher">>]
    ELSE IF equals_one(features, "publisher_size_bin__Large")
    THEN [exc |-> "none", factors |-> <<"large publisher">>]
    ELSE IF equals_one(features, "publisher_size_bin__Medium")
    THEN [exc |-> "none", factors |-> <<"mid-sized publisher">>]
    ELSE IF equals_one(features, "publisher_size_bin__Small")
    THEN [exc |-> "none", factors |-> <<"smaller publisher">>]
    ELSE [exc |-> "none", factors |-> <<>>]

sale_flags ==
    << "is_summer_sale_window", "is_autumn_sale_window", "is_holiday_season",
       "within_7d_of_steam_sale" >>

\* the sale-window rule with each flag read under its own try block
RECURSIVE sale_rule_each(_, _, _)
sale_rule_each(features, i, near_major_sale) ==
    IF i > Len(sale_flags)
    THEN IF near_major_sale
         THEN [exc |-> "none", factors |-> <<"major Steam sale window">>]
         ELSE [exc |-> "none", factors |-> <<>>]
    ELSE LET r == int(get(features, sale_flags[i], Num(0))) IN
         IF r.exc \in {"TypeError", "ValueError"}
         THEN sale_rule_each(features, i + 1, near_major_sale)
         ELSE IF r.exc # "none" THEN [exc |-> r.exc, factors |-> <<>>]
         ELSE sale_rule_each(features, i + 1, near_major_sale \/ r.n = 1)

\* rule family 5: int() of the four flags in turn inside one try block; the first
\* int() that raises ends the block
RECURSIVE sale_rule_loop(_, _, _)
sale_rule_loop(features, i, near_major_sale) ==
    IF i > Len(sale_flags)
    THEN IF near_major_sale
         THEN [exc |-> "none", factors |-> <<"major Steam sale window">>]
         ELSE [exc |-> "none", factors |-> <<>>]
    ELSE LET r == int(get(features, sale_flags[i], Num(0))) IN
         IF r.exc \in {"TypeError", "ValueError"} THEN [exc |-> "none", factors |-> <<>>]
         ELSE IF r.exc # "none" THEN [exc |-> r.exc, factors |-> <<>>]
         ELSE sale_rule_loop(features, i + 1, near_major_sale \/ r.n = 1)

\* one rule family after the factors found so far
then_rule(so_far, rule) ==
    IF so_far.exc # "none" THEN so_far
    ELSE IF rule.exc # "none" THEN [exc |-> rule.exc, factors |-> <<>>]
    ELSE [exc |-> "none", factors |-> so_far.factors \o rule.factors]

\* the generic cutoff of the recency rule
RecentYear == 2024

\* the franchise count from which the franchise rule fires
FranchiseMin == 3

\* InsightService._extract_contextual_factors
extract_contextual_factors(features) ==
    then_rule(then_rule(then_rule(then_rule(
        int_rule(features, "release_year", RecentYear, FALSE, "new or upcoming title"),
        publisher_rule(features)),
        int_rule(features, "early_access", 1, TRUE, "Early Access")),
        int_rule(features, "franchise_count_prev", FranchiseMin, FALSE,
                 "established franchise")),
        sale_rule_loop(features, 1, FALSE))

\* _fallback_combined_bullets with the ends of the middle bands exclusive
fallback_bullets_inclusive(score_30, score_60, will_30, will_60) ==
    LET p30 == score_30
        p60 == score_60
        b1 == IF p30 <= 20 THEN Sentence("Low chance of a discount in the next 30 days.")
              ELSE IF p30 >= 60
              THEN Sentence("Strong chance of a discount within the next 30 days.")
              ELSE Sentence("Some chance of a discount in the next 30 days, but not high-confidence.")
        b2 == IF p60 <= 30
              THEN Sentence("Even over 60 days, a meaningful discount looks unlikely.")
              ELSE IF p60 >= 60
              THEN Sentence("Within 60 days, a discount becomes quite plausible based on similar titles.")
              ELSE Sentence("Over 60 days, odds improve somewhat but remain uncertain.")
        b3 == IF will_30 \/ will_60
              THEN Sentence("If you're price-sensitive and can wait, holding off may be reasonable; otherwise buying near launch is still defensible.")
              ELSE Sentence("If you want to play soon, buying at or near launch is reasonable; waiting solely for a big discount may not pay off quickly.")
    IN  SubSeq(<<b1, b2, b3>>, 1, 3)

\* InsightService._fallback_combined_bullets; scores in hundredths, so p30 = score_30
fallback_combined_bullets(score_30, score_60, will_30, will_60) ==
    LET p30 == score_30
        p60 == score_60
        b1 == IF p30 < 20 THEN Sentence("Low chance of a discount in the next 30 days.")
              ELSE IF p30 > 60
              THEN Sentence("Strong chance of a discount within the next 30 days.")
              ELSE Sentence("Some chance of a discount in the next 30 days, but not high-confidence.")
        b2 == IF p60 < 30
              THEN Sentence("Even over 60 days, a meaningful discount looks unlikely.")
              ELSE IF p60 > 60
              THEN Sentence("Within 60 days, a discount becomes quite plausible based on similar titles.")
              ELSE Sentence("Over 60 days, odds improve somewhat but remain uncertain.")
        b3 == IF will_30 \/ will_60
              THEN Sentence("If you're price-sensitive and can wait, holding off may be reasonable; otherwise buying near launch is still defensible.")
              ELSE Sentence("If you want to play soon, buying at or near launch is reasonable; waiting solely for a big discount may not pay off quickly.")
    IN  SubSeq(<<b1, b2, b3>>, 1, 3)

\* what responses.create gives: kind is "raise" (the call raised), "malformed"
\* (response.output[0].content[0].text fails), "none" (the text is None), "not_str"
\* (the text is a truthy non-str) or "text" with the lines of the text
OpenAI(kind, lines) == [kind |-> kind, lines |-> lines]

\* the characters line.strip("•*- ") drops; "•" is written "o"
bullet_markers == {"o", "*", "-", " "}

\* the comprehension of _build_openai_summary_combined over raw.splitlines()
parse_lines(lines) ==
    LET kept == SelectSeq(lines, LAMBDA line : Len(strip(line)) > 0)
        stripped == [i \in 1 .. Len(kept) |-> strip(strip_chars(kept[i], bullet_markers))]
    IN  SelectSeq(stripped, LAMBDA ln : Len(ln) > 0)

\* InsightService._build_openai_summary_combined
build_openai_summary_combined(client, model, response) ==
    IF ~client \/ ~model THEN [exc |-> "none", bullets |-> <<>>]
    ELSE IF response.kind = "raise" THEN [exc |-> "Exception", bullets |-> <<>>]
    ELSE IF response.kind = "malformed" THEN [exc |-> "none", bullets |-> <<>>]
    ELSE IF response.kind = "not_str" THEN [exc |-> "AttributeError", bullets |-> <<>>]
    ELSE LET lines == IF response.kind = "none" THEN <<>> ELSE response.lines
             parsed == parse_lines(lines)
         IN  [exc |-> "none",
              bullets |-> SubSeq(parsed, 1, IF Len(parsed) < 3 THEN Len(parsed) ELSE 3)]

\* InsightService._build_openai_summary: the summary, "" or an exception
build_openai_summary(client, model, response) ==
    IF ~client \/ ~model THEN [exc |-> "RuntimeError", summary |-> None]
    ELSE IF response.kind = "raise" THEN [exc |-> "Exception", summary |-> None]
    ELSE IF response.kind \in {"malformed", "none", "not_str"}
         THEN [exc |-> "none", summary |-> Str(<<>>)]
    ELSE [exc |-> "none", summary |-> Str(<<"t", "e", "x", "t">>)]

InsightIdle ==
    [op |-> "none", status |-> "idle", exc |-> "none", keys |-> {},
     game_name |-> None, news_fetched |-> FALSE, openai_called |-> FALSE,
     score_30d |-> 0, score_60d |-> 0, will_discount_30d |-> FALSE,
     will_discount_60d |-> FALSE,
     sale_confidence_comment |-> [band |-> "none", horizon |-> None],
     contextual_factors |-> <<>>, news |-> <<>>, bullets |-> <<>>, openai_summary |-> None,
     features |-> <<>>, score |-> 0, will_discount |-> FALSE,
     title |-> None, relevant |-> FALSE, limit |-> 0, http |-> Http("none", <<>>),
     features_after |-> <<>>, first |-> [exc |-> "none", factors |-> <<>>],
     between |-> <<>>]

InsightRaised(op, exc, game_name) ==
    [InsightIdle EXCEPT !.op = op, !.status = "raise", !.exc = exc, !.game_name = game_name]

\* InsightService.build_insights
build_insights_outcome(enabled, client, model, news, prediction, features, game_name, http, response) ==
    LET score == float(get(prediction, "score", Num(0)))
        horizon == get(prediction, "horizon", Str(<<"3", "0", "d">>))
        will_discount == bool(get(prediction, "will_discount", Bool(FALSE)))
        factors == extract_contextual_factors(features)
        fetch == bool(game_name) /\ News_is_enabled(news)
        summary == build_openai_summary(client, model, response)
    IN  IF score.exc # "none" THEN InsightRaised("build_insights", score.exc, game_name)
        ELSE IF factors.exc # "none"
        THEN InsightRaised("build_insights", factors.exc, game_name)
        ELSE [InsightIdle EXCEPT
                !.op = "build_insights", !.status = "return", !.game_name = game_name,
                !.keys = {"sale_confidence_comment", "contextual_factors", "news",
                          "openai_summary"},
                !.news_fetched = fetch,
                !.openai_called = enabled /\ client /\ model,
                !.sale_confidence_comment =
                    make_confidence_comment(score.n, horizon, will_discount),
                !.contextual_factors = factors.factors,
                !.news = IF fetch THEN fetch_game_news(news, game_name, 3, http) ELSE <<>>,
                !.openai_summary = IF enabled /\ summary.exc = "none"
                                   THEN summary.summary ELSE None]

\* InsightService.build_combined_insights
build_combined_insights_outcome(enabled, client, model, news, game_name, pred_30, pred_60, features, http, response) ==
    LET score_30 == float(get(pred_30, "score", Num(0)))
        score_60 == float(get(pred_60, "score", Num(0)))
        will_30 == bool(get(pred_30, "will_discount", Bool(FALSE)))
        will_60 == bool(get(pred_60, "will_discount", Bool(FALSE)))
        factors == extract_contextual_factors(features)
        fetch == News_is_enabled(news)
        generated == build_openai_summary_combined(client, model, response)
        bullets == IF enabled /\ generated.exc = "none" THEN generated.bullets ELSE <<>>
    IN  IF score_30.exc # "none"
        THEN InsightRaised("build_combined_insights", score_30.exc, game_name)
        ELSE IF score_60.exc # "none"
        THEN InsightRaised("build_combined_insights", score_60.exc, game_name)
        ELSE IF factors.exc # "none"
        THEN InsightRaised("build_combined_insights", factors.exc, game_name)
        ELSE [InsightIdle EXCEPT
                !.op = "build_combined_insights", !.status = "return",
                !.game_name = game_name,
                !.keys = {"score_30d", "score_60d", "will_discount_30d",
                          "will_discount_60d", "contextual_factors", "news", "bullets"},
                !.news_fetched = fetch,
                !.openai_called = enabled /\ client /\ model,
                !.score_30d = score_30.n, !.score_60d = score_60.n,
                !.will_discount_30d = will_30, !.will_discount_60d = will_60,
                !.contextual_factors = factors.factors,
                !.news = IF fetch THEN fetch_game_news(news, game_name, 3, http) ELSE <<>>,
                !.bullets = IF Len(bullets) = 0
                            THEN fallback_combined_bullets(score_30.n, score_60.n,
                                                           will_30, will_60)
                            ELSE bullets]

\* game names a caller passes
GameNames == { None, Str(<<>>), Str(<<"H", "a", "d", "e", "s">>) }

\* decision records a caller passes, as dicts
Predictions ==
    { <<>>,
      ("score" :> Num(10)) @@ ("will_discount" :> Bool(FALSE))
          @@ ("horizon" :> Str(<<"3", "0", "d">>)),
      ("score" :> Num(80)) @@ ("will_discount" :> Bool(TRUE))
          @@ ("horizon" :> Str(<<"6", "0", "d">>)),
      ("score" :> None) @@ ("will_discount" :> Bool(FALSE)),
      ("score" :> BadStr) @@ ("will_discount" :> Bool(TRUE)) }

\* feature maps a caller passes to the insight builders
InsightFeatureMaps ==
    { <<>>,
      ("release_year" :> Num(2025)) @@ ("publisher_size_bin__Major" :> Num(1))
          @@ ("is_summer_sale_window" :> Num(1)) @@ ("is_autumn_sale_window" :> Num(0))
          @@ ("is_holiday_season" :> Num(0)) @@ ("within_7d_of_steam_sale" :> Num(0)),
      ("release_year" :> BadStr) @@ ("publisher_size_bin__Major" :> BadStr)
          @@ ("franchise_count_prev" :> BadStr),
      ("release_year" :> Inf) }

\* headlines: one naming the game in another case, one with a sale keyword, one with
\* neither, and a missing title
Titles ==
    { None, Str(<<"H", "A", "D", "E", "S">>), Str(<<"D", "i", "s", "c", "o", "u", "n", "t">>),
      Str(<<"P", "a", "t", "c", "h">>) }

\* answers of the news API to the insight builders
HttpOutcomes ==
    { Http("timeout", <<>>), Http("non_200", <<>>), Http("bad_json", <<>>),
      Http("not_dict", <<>>), Http("ok", <<>>), Http("ok", <<NotADictArticle>>),
      Http("ok", <<BadSourceArticle>>) }
    \cup { Http("ok", <<Article(t)>>) : t \in Titles }

\* lines of a generated text: blank, bullet markers only, a bullet
RawLines == { <<" ">>, <<"-", " ", "*">>, <<"-", " ", "W", "a", "i", "t">> }

\* answers of the generative API
OpenAIOutcomes ==
    { OpenAI("raise", <<>>), OpenAI("malformed", <<>>), OpenAI("none", <<>>),
      OpenAI("not_str", <<>>) }
    \cup { OpenAI("text", lines) :
             lines \in UNION { [1 .. n -> RawLines] : n \in 0 .. MaxRawLines } }

\* values a feature map can bind each input of _extract_contextual_factors to:
\* null, a non-numeric str, numbers, float('inf')
FactorValues ==
    [ release_year |-> { None, BadStr, Num(2023), Num(2024), Inf },
      publisher_size_bin__Major |-> { None, BadStr, Num(0), Num(1) },
      publisher_size_bin__Large |-> { None, BadStr, Num(0), Num(1) },
      publisher_size_bin__Medium |-> { None, BadStr, Num(0), Num(1) },
      publisher_size_bin__Small |-> { None, BadStr, Num(0), Num(1) },
      early_access |-> { None, BadStr, Num(0), Num(1), Inf },
      franchise_count_prev |-> { None, BadStr, Num(2), Num(3), Inf },
      is_summer_sale_window |-> { None, BadStr, Num(0), Num(1) },
      is_autumn_sale_window |-> { None, BadStr, Num(0), Num(1) },
      is_holiday_season |-> { None, BadStr, Num(0), Num(1) },
      within_7d_of_steam_sale |-> { None, BadStr, Num(0), Num(1), Inf } ]

\* feature maps in which whole rule families fire together, two publisher bins at
\* once among them
FamilyMaps ==
    { (IF recent THEN ("release_year" :> Num(2024)) ELSE <<>>)
      @@ (IF major THEN ("publisher_size_bin__Major" :> Num(1)) ELSE <<>>)
      @@ (IF publisher THEN ("publisher_size_bin__Large" :> Num(1))
                            @@ ("publisher_size_bin__Medium" :> Num(0))
                            @@ ("publisher_size_bin__Small" :> Num(1)) ELSE <<>>)
      @@ (IF early THEN ("early_access" :> Num(1)) ELSE <<>>)
      @@ (IF franchise THEN ("franchise_count_prev" :> Num(3)) ELSE <<>>)
      @@ (IF sale THEN ("is_autumn_sale_window" :> Num(1))
                       @@ ("is_holiday_season" :> Num(1)) ELSE <<>>)
      : recent \in BOOLEAN, major \in BOOLEAN, publisher \in BOOLEAN, early \in BOOLEAN,
        franchise \in BOOLEAN, sale \in BOOLEAN }

\* feature maps handed to _extract_contextual_factors directly
FactorMaps == dicts_upto(FactorValues, MaxFactorKeys)

NoHttp == { Http("timeout", <<>>) }

NoOpenAI == { OpenAI("raise", <<>>) }

\* the collaborators' answers are drawn only when the call gets as far as asking them
NoAnswer(outcome) == outcome.status = "raise"

\* InsightService.build_insights
build_insights ==
    /\ insight_ret = InsightIdle
    /\ \E prediction \in Predictions, features \in InsightFeatureMaps,
          game_name \in GameNames :
          LET early == build_insights_outcome(openai_enabled, openai_client, openai_model,
                                              news_client, prediction, features,
                                              game_name, Http("timeout", <<>>),
                                              OpenAI("raise", <<>>))
          IN  \E http \in (IF News_is_enabled(news_client) /\ ~NoAnswer(early)
                            THEN HttpOutcomes ELSE NoHttp),
                 response \in (IF openai_enabled /\ openai_client /\ openai_model
                                  /\ ~NoAnswer(early)
                               THEN { r \in OpenAIOutcomes : Len(r.lines) <= 1 }
                               ELSE NoOpenAI) :
                 insight_ret' = build_insights_outcome(
                                    openai_enabled, openai_client, openai_model,
                                    news_client, prediction, features, game_name,
                                    http, response)
    /\ UNCHANGED <<openai_enabled, openai_client, openai_model, news_client>>
    /\ UNCHANGED <<predictor_vars, builder_vars, itad_vars>>

\* InsightService.build_combined_insights
build_combined_insights ==
    /\ insight_ret = InsightIdle
    /\ \E pred_30 \in Predictions, pred_60 \in Predictions,
          features \in InsightFeatureMaps, game_name \in GameNames :
          LET early == build_combined_insights_outcome(
                           openai_enabled, openai_client, openai_model, news_client,
                           game_name, pred_30, pred_60, features,
                           Http("timeout", <<>>), OpenAI("raise", <<>>))
          IN  \E http \in (IF News_is_enabled(news_client) /\ ~NoAnswer(early)
                            THEN HttpOutcomes ELSE NoHttp),
                 response \in (IF openai_enabled /\ openai_client /\ openai_model
                                  /\ ~NoAnswer(early)
                               THEN OpenAIOutcomes ELSE NoOpenAI) :
                 insight_ret' = build_combined_insights_outcome(
                                    openai_enabled, openai_client, openai_model,
                                    news_client, game_name, pred_30, pred_60, features,
                                    http, response)
    /\ UNCHANGED <<openai_enabled, openai_client, openai_model, news_client>>
    /\ UNCHANGED <<predictor_vars, builder_vars, itad_vars>>

\* _extract_contextual_factors reading release_year with features.pop
features_after_pop(features) ==
    [k \in DOMAIN features \ {"release_year"} |-> features[k]]

\* the caller's dict after _extract_contextual_factors: the method reads it with
\* features.get only and keeps nothing on self
features_after_extract(features) == features

\* InsightService._extract_contextual_factors called on its own
insight_extract_contextual_factors ==
    /\ insight_ret = InsightIdle
    /\ \E features \in FactorMaps \cup FamilyMaps :
          LET out == extract_contextual_factors(features) IN
          insight_ret' = [InsightIdle EXCEPT
                            !.op = "_extract_contextual_factors",
                            !.status = IF out.exc = "none" THEN "return" ELSE "raise",
                            !.exc = out.exc, !.features = features,
                            !.features_after = features_after_extract(features),
                            !.contextual_factors = out.factors]
    /\ UNCHANGED <<openai_enabled, openai_client, openai_model, news_client>>
    /\ UNCHANGED <<predictor_vars, builder_vars, itad_vars>>

\* feature maps of the calls made between two calls on the same map
BetweenMaps ==
    { <<>>,
      ("release_year" :> Num(2024)) @@ ("is_holiday_season" :> Num(1)),
      ("early_access" :> Inf) }

\* the caller of _extract_contextual_factors calls it on another map and then once
\* more on the map of its first call
insight_extract_again ==
    /\ insight_ret.op = "_extract_contextual_factors"
    /\ \E other \in BetweenMaps :
          LET between == extract_contextual_factors(other)
              again == insight_ret.features_after
              out == extract_contextual_factors(again)
          IN  insight_ret' = [insight_ret EXCEPT
                                !.op = "_extract_contextual_factors again",
                                !.first = [exc |-> insight_ret.exc,
                                           factors |-> insight_ret.contextual_factors],
                                !.between = between.factors,
                                !.status = IF out.exc = "none" THEN "return" ELSE "raise",
                                !.exc = out.exc,
                                !.features_after = features_after_extract(again),
                                !.contextual_factors = out.factors]
    /\ UNCHANGED <<openai_enabled, openai_client, openai_model, news_client>>
    /\ UNCHANGED <<predictor_vars, builder_vars, itad_vars>>

\* scores a caller passes, in hundredths: the ends of the bands and their neighbours
BandScores == {0, 10, 19, 20, 21, 29, 30, 31, 44, 45, 46, 59, 60, 61, 64, 65, 66, 80, 84, 85, 86, 100}

\* InsightService._fallback_combined_bullets called on its own
insight_fallback_combined_bullets ==
    /\ insight_ret = InsightIdle
    /\ \E score_30 \in BandScores, score_60 \in BandScores, will_30 \in BOOLEAN, will_60 \in BOOLEAN :
          insight_ret' = [InsightIdle EXCEPT
                            !.op = "_fallback_combined_bullets", !.status = "return",
                            !.score_30d = score_30, !.score_60d = score_60,
                            !.will_discount_30d = will_30, !.will_discount_60d = will_60,
                            !.bullets = fallback_combined_bullets(score_30, score_60,
                                                                  will_30, will_60)]
    /\ UNCHANGED <<openai_enabled, openai_client, openai_model, news_client>>
    /\ UNCHANGED <<predictor_vars, builder_vars, itad_vars>>

\* the horizon texts build_insights passes on
HorizonTexts == { Str(<<"3", "0", "d">>), Str(<<"6", "0", "d">>) }

\* InsightService._make_confidence_comment called on its own
insight_make_confidence_comment ==
    /\ insight_ret = InsightIdle
    /\ \E score \in BandScores, horizon \in HorizonTexts, will_discount \in BOOLEAN :
          insight_ret' = [InsightIdle EXCEPT
                            !.op = "_make_confidence_comment", !.status = "return",
                            !.score = score, !.will_discount = will_discount,
                            !.sale_confidence_comment =
                                make_confidence_comment(score, horizon, will_discount)]
    /\ UNCHANGED <<openai_enabled, openai_client, openai_model, news_client>>
    /\ UNCHANGED <<predictor_vars, builder_vars, itad_vars>>

\* titles and game names _is_relevant_article is called with
RelevanceTitles ==
    Titles \cup { Str(<<>>), Str(<<" ", " ">>),
                  Str(<<"H", "a", "d", "e", "s", " ", "I", "I", " ", "o", "u", "t">>),
                  Str(<<"5", "0", "%", " ", "O", "F", "F">>) }

RelevanceNames ==
    GameNames \cup { Str(<<" ", " ">>), Str(<<" ", "h", "a", "d", "e", "s", " ">>),
                     Str(<<"Z", "e", "l", "d", "a">>) }

\* NewsClient._is_relevant_article called on its own
news_is_relevant_article ==
    /\ insight_ret = InsightIdle
    /\ \E title \in RelevanceTitles, game_name \in RelevanceNames :
          insight_ret' = [InsightIdle EXCEPT
                            !.op = "_is_relevant_article", !.status = "return",
                            !.title = title, !.game_name = game_name,
                            !.relevant = is_relevant_article(title, game_name)]
    /\ UNCHANGED <<openai_enabled, openai_client, openai_model, news_client>>
    /\ UNCHANGED <<predictor_vars, builder_vars, itad_vars>>

\* articles of a payload: well-formed ones, one whose title is a number, malformed ones
ArticleValues ==
    { Article(t) : t \in Titles } \cup { Article(Num(5)), NotADictArticle, BadSourceArticle }

ArticleLists == UNION { [1 .. n -> ArticleValues] : n \in 0 .. MaxArticles }

\* answers of the news API to fetch_game_news
NewsReplies ==
    { Http("timeout", <<>>), Http("non_200", <<>>), Http("bad_json", <<>>),
      Http("not_dict", <<>>) }
    \cup { Http("ok", articles) : articles \in ArticleLists }

\* the limit argument: the default 3 of the insight builders, and 1
Limits == {1, 3}

\* NewsClient.fetch_game_news called on its own
news_fetch_game_news ==
    /\ insight_ret = InsightIdle
    /\ \E game_name \in GameNames, limit \in Limits,
          http \in (IF News_is_enabled(news_client) THEN NewsReplies ELSE NoHttp) :
          insight_ret' = [InsightIdle EXCEPT
                            !.op = "fetch_game_news", !.status = "return",
                            !.game_name = game_name, !.limit = limit, !.http = http,
                            !.news_fetched = News_is_enabled(news_client),
                            !.news = fetch_game_news(news_client, game_name, limit, http)]
    /\ UNCHANGED <<openai_enabled, openai_client, openai_model, news_client>>
    /\ UNCHANGED <<predictor_vars, builder_vars, itad_vars>>

\* the caller is done with the rationale
insight_discard ==
    /\ insight_ret # InsightIdle
    /\ insight_ret' = InsightIdle
    /\ UNCHANGED <<openai_enabled, openai_client, openai_model, news_client>>
    /\ UNCHANGED <<predictor_vars, builder_vars, itad_vars>>

\* insight_service = InsightService(openai_enabled=True), or InsightService() in tests
InsightServiceInit ==
    /\ \E enabled_arg \in BOOLEAN, configured \in BOOLEAN, client_raises \in BOOLEAN,
          news_api_key \in BOOLEAN :
          LET fields == post_init(enabled_arg, configured, client_raises, news_api_key)
          IN  /\ openai_enabled = fields.openai_enabled
              /\ openai_client = fields.openai_client
              /\ openai_model = fields.openai_model
              /\ news_client = fields.news_client
    /\ insight_ret = InsightIdle

\* the service constructed without any key, no call made
InsightAtRest ==
    /\ openai_enabled = FALSE
    /\ openai_client = FALSE
    /\ openai_model = FALSE
    /\ news_client = [api_key |-> FALSE]
    /\ insight_ret = InsightIdle

-----------------------------------------------------------------------------
(* ItadClient: itad_client.py *)

\* ItadClient.is_enabled; the client is [api_key, base_url], each set or not
Itad_is_enabled(client) == IF client.api_key /\ client.base_url THEN TRUE ELSE FALSE

\* what requests.post / requests.get gives the client: kind is "timeout" (requests
\* raises), "non_200" (an error status), "bad_json" (resp.json() raises) or "ok"
\* with the parsed JSON
Reply(kind, json) == [kind |-> kind, json |-> json]

\* parsed JSON: null, a str, a list of items, or a non-empty object, whose items are
\* those of its "results" member
Json(t, items) == [t |-> t, items |-> items]

JsonNull == Json("null", <<>>)

\* ItadClient._get and ItadClient._post: the parsed JSON, or None
request(client, reply) ==
    IF ~Itad_is_enabled(client) THEN JsonNull
    ELSE IF reply.kind # "ok" THEN JsonNull
    ELSE reply.json

\* truth value of parsed JSON
json_truthy(data) == data.t = "dict" \/ (data.t \in {"list", "str"} /\ Len(data.items) > 0)

\* an item of a search reply: a dict with id and title members, or no dict
Item(t, id, title) == [t |-> t, id |-> id, title |-> title]

\* the loop of search_game
RECURSIVE search_loop(_, _, _, _)
search_loop(items, i, limit, results) ==
    IF i > Len(items) THEN [exc |-> "none", results |-> results]
    ELSE LET item == items[i] IN
         IF item.t # "dict" THEN [exc |-> "AttributeError", results |-> <<>>]
         ELSE IF ~bool(item.id) \/ ~bool(item.title)
              THEN search_loop(items, i + 1, limit, results)
         ELSE LET more == Append(results, [itad_id |-> item.id, title |-> item.title]) IN
              IF Len(more) >= limit THEN [exc |-> "none", results |-> more]
              ELSE search_loop(items, i + 1, limit, more)

\* ItadClient.search_game
search_game(client, limit, reply) ==
    IF ~Itad_is_enabled(client) THEN [exc |-> "none", results |-> <<>>]
    ELSE LET data == request(client, reply) IN
         IF ~json_truthy(data) THEN [exc |-> "none", results |-> <<>>]
         ELSE IF data.t = "str" THEN [exc |-> "AttributeError", results |-> <<>>]
         ELSE search_loop(data.items, 1, limit, <<>>)

\* ItadClient.get_game_info: the kind of JSON returned, "null" for None
get_game_info(client, reply) ==
    IF ~Itad_is_enabled(client) THEN "null"
    ELSE LET data == request(client, reply) IN
         IF ~json_truthy(data) THEN "null" ELSE data.t

\* a deal of a prices entry. shop_t: its shop is a "dict" with id and name (0 and ""
\* when absent), a "str" (name), "None", or the deal is "not_dict". price_t: its
\* price is a "dict" with an amount, "None", or "not_dict"
Deal(shop_t, id, name, price_t, amount) ==
    [shop_t |-> shop_t, id |-> id, name |-> name, price_t |-> price_t, amount |-> amount]

\* a prices entry: a dict with its deals, null, or a str
Entry(t, deals) == [t |-> t, deals |-> deals]

\* the loop of get_game_shops over the deals; the names seen so far are a set
RECURSIVE shops_loop(_, _, _)
shops_loop(deals, i, shops) ==
    IF i > Len(deals) THEN [exc |-> "none", shops |-> shops]
    ELSE LET deal == deals[i]
             shop_name == IF deal.name # "" THEN deal.name
                          ELSE IF deal.id # 0 THEN ToString(deal.id) ELSE ""
         IN  IF deal.shop_t = "not_dict" THEN [exc |-> "AttributeError", shops |-> {}]
             ELSE IF deal.shop_t = "dict" /\ shop_name # ""
                  THEN shops_loop(deals, i + 1, shops \cup {shop_name})
             ELSE IF deal.shop_t = "str" /\ deal.name # ""
                  THEN shops_loop(deals, i + 1, shops \cup {deal.name})
             ELSE shops_loop(deals, i + 1, shops)

\* ItadClient.get_game_shops
get_game_shops(client, reply) ==
    IF ~Itad_is_enabled(client) THEN [exc |-> "none", shops |-> {}]
    ELSE LET data == request(client, reply) IN
         IF ~json_truthy(data) \/ data.t # "list" THEN [exc |-> "none", shops |-> {}]
         ELSE LET entry == data.items[1] IN
              IF entry.t # "dict" THEN [exc |-> "AttributeError", shops |-> {}]
              ELSE shops_loop(entry.deals, 1, {})

\* ItadClient.get_price_overview_v3: no enabled check and no handler around the
\* request, raise_for_status() and resp.json()
get_price_overview_v3(reply) ==
    CASE reply.kind = "timeout"  -> [exc |-> "Timeout", data |-> JsonNull]
      [] reply.kind = "non_200"  -> [exc |-> "HTTPError", data |-> JsonNull]
      [] reply.kind = "bad_json" -> [exc |-> "JSONDecodeError", data |-> JsonNull]
      [] OTHER -> [exc |-> "none",
                   data |-> IF json_truthy(reply.json) THEN reply.json
                            ELSE Json("list", <<>>)]

NoPrice == [exc |-> "none", amount |-> None, currency |-> "None", shop |-> "None"]

PriceRaised(exc) == [NoPrice EXCEPT !.exc = exc]

name_of(deal) == IF deal.shop_t = "dict" /\ deal.name # "" THEN deal.name ELSE "None"

currency_of(deal) == IF deal.price_t = "dict" THEN "USD" ELSE "None"

prefer_shops == {61}

\* first loop of pick_current_price: the first deal of a preferred shop
RECURSIVE prefer_loop(_, _)
prefer_loop(deals, i) ==
    IF i > Len(deals) THEN [found |-> FALSE, price |-> NoPrice]
    ELSE LET d == deals[i] IN
         IF d.shop_t \in {"not_dict", "str"}
         THEN [found |-> TRUE, price |-> PriceRaised("AttributeError")]
         ELSE IF d.shop_t = "dict" /\ d.id \in prefer_shops
              THEN IF d.price_t = "not_dict"
                   THEN [found |-> TRUE, price |-> PriceRaised("AttributeError")]
                   ELSE [found |-> TRUE,
                         price |-> [exc |-> "none",
                                    amount |-> IF d.price_t = "dict" THEN d.amount ELSE None,
                                    currency |-> currency_of(d), shop |-> name_of(d)]]
         ELSE prefer_loop(deals, i + 1)

\* second loop of pick_current_price: the lowest numeric amount, the first on a tie
RECURSIVE lowest_loop(_, _, _)
lowest_loop(deals, i, best) ==
    IF i > Len(deals) THEN best
    ELSE LET d == deals[i] IN
         IF d.price_t = "not_dict" THEN PriceRaised("AttributeError")
         ELSE IF /\ d.price_t = "dict"
                 /\ d.amount.t \in {"num", "bool"}
                 /\ (best.amount = None \/ d.amount.n < best.amount.n)
              THEN lowest_loop(deals, i + 1,
                               [exc |-> "none", amount |-> d.amount,
                                currency |-> currency_of(d), shop |-> name_of(d)])
         ELSE lowest_loop(deals, i + 1, best)

\* ItadClient.pick_current_price
pick_current_price(price_block) ==
    IF price_block.t = "null" THEN NoPrice
    ELSE IF price_block.t # "dict" THEN PriceRaised("AttributeError")
    ELSE IF Len(price_block.deals) = 0 THEN NoPrice
    ELSE LET preferred == prefer_loop(price_block.deals, 1) IN
         IF preferred.found THEN preferred.price
         ELSE lowest_loop(price_block.deals, 1, NoPrice)

\* ItadClient.get_current_price_simple
get_current_price_simple(reply) ==
    LET got == get_price_overview_v3(reply) IN
    IF got.exc # "none" THEN PriceRaised(got.exc)
    ELSE IF ~json_truthy(got.data) THEN NoPrice
    ELSE IF got.data.t = "dict" THEN PriceRaised("KeyError")
    ELSE IF got.data.t = "str" THEN PriceRaised("AttributeError")
    ELSE pick_current_price(got.data.items[1])

\* the deals of a prices reply
DealValues ==
    { Deal("dict", 61, "Steam", "dict", Num(1999)),
      Deal("dict", 35, "GOG", "dict", Num(999)),
      Deal("dict", 0, "Nintendo eShop", "None", None),
      Deal("dict", 16, "", "dict", NumStr(499)),
      Deal("str", 0, "Steam", "dict", Num(1499)),
      Deal("None", 0, "", "not_dict", None),
      Deal("not_dict", 0, "", "None", None) }

DealLists == UNION { [1 .. n -> DealValues] : n \in 0 .. MaxDeals }

NoReply == Reply("none", JsonNull)

FailedReplies ==
    { Reply("timeout", JsonNull), Reply("non_200", JsonNull), Reply("bad_json", JsonNull) }

\* what the prices request can get
PricesReplies ==
    FailedReplies
    \cup { Reply("ok", JsonNull), Reply("ok", Json("dict", <<>>)),
           Reply("ok", Json("str", <<"e">>)), Reply("ok", Json("list", <<>>)),
           Reply("ok", Json("list", <<Entry("null", <<>>)>>)),
           Reply("ok", Json("list", <<Entry("str", <<>>)>>)) }
    \cup { Reply("ok", Json("list", <<Entry("dict", deals)>>)) : deals \in DealLists }

ItemValues ==
    { Item("dict", Str(<<"g", "1">>), Str(<<"H", "a", "d", "e", "s">>)),
      Item("dict", Str(<<"g", "2">>), Str(<<"h", "a", "d", "e", "s">>)),
      Item("dict", None, Str(<<"H", "a", "d", "e", "s">>)),
      Item("dict", Str(<<"g", "3">>), None),
      Item("dict", Str(<<"g", "4">>), Str(<<"H", "a", "d", "e", "s", " ", "I", "I">>)),
      Item("not_dict", None, None) }

ItemLists == UNION { [1 .. n -> ItemValues] : n \in 0 .. MaxItems }

\* what the search request can get
SearchReplies ==
    FailedReplies
    \cup { Reply("ok", JsonNull), Reply("ok", Json("str", <<"e">>)) }
    \cup { Reply("ok", Json(t, items)) : t \in {"list", "dict"}, items \in ItemLists }

\* what the info request can get
InfoReplies ==
    FailedReplies
    \cup { Reply("ok", JsonNull), Reply("ok", Json("dict", <<>>)),
           Reply("ok", Json("list", <<>>)), Reply("ok", Json("str", <<"e">>)) }

\* None where a result of search_game is expected
NoCandidate == [itad_id |-> None, title |-> None]

ItadIdle ==
    [op |-> "none", status |-> "idle", exc |-> "none", reply |-> "none",
     results |-> <<>>, info |-> "null", shops |-> {}, price |-> NoPrice,
     deals |-> <<>>, module |-> "none", name |-> <<>>, candidate |-> NoCandidate]

ItadDone(op, exc, reply) ==
    [ItadIdle EXCEPT !.op = op, !.exc = exc, !.reply = reply.kind,
                     !.status = IF exc = "none" THEN "return" ELSE "raise"]

itad_search_game ==
    /\ itad_ret = ItadIdle
    /\ \E limit \in {1, 5}, reply \in SearchReplies :
         LET out == search_game(itad_client, limit, reply) IN
         itad_ret' = [ItadDone("search_game", out.exc, reply) EXCEPT !.results = out.results]
    /\ UNCHANGED <<itad_client, builder_vars>>
    /\ UNCHANGED <<predictor_vars, insight_vars>>

itad_get_game_info ==
    /\ itad_ret = ItadIdle
    /\ \E reply \in InfoReplies :
         itad_ret' = [ItadDone("get_game_info", "none", reply)
                         EXCEPT !.info = get_game_info(itad_client, reply)]
    /\ UNCHANGED <<itad_client, builder_vars>>
    /\ UNCHANGED <<predictor_vars, insight_vars>>

itad_get_game_shops ==
    /\ itad_ret = ItadIdle
    /\ \E reply \in PricesReplies :
         LET out == get_game_shops(itad_client, reply) IN
         itad_ret' = [ItadDone("get_game_shops", out.exc, reply) EXCEPT !.shops = out.shops]
    /\ UNCHANGED <<itad_client, builder_vars>>
    /\ UNCHANGED <<predictor_vars, insight_vars>>

itad_get_price_overview_v3 ==
    /\ itad_ret = ItadIdle
    /\ \E reply \in PricesReplies :
         LET out == get_price_overview_v3(reply) IN
         itad_ret' = [ItadDone("get_price_overview_v3", out.exc, reply)
                         EXCEPT !.info = out.data.t]
    /\ UNCHANGED <<itad_client, builder_vars>>
    /\ UNCHANGED <<predictor_vars, insight_vars>>

itad_get_current_price_simple ==
    /\ itad_ret = ItadIdle
    /\ \E reply \in PricesReplies :
         LET out == get_current_price_simple(reply) IN
         itad_ret' = [ItadDone("get_current_price_simple", out.exc, reply)
                         EXCEPT !.price = out]
    /\ UNCHANGED <<itad_client, builder_vars>>
    /\ UNCHANGED <<predictor_vars, insight_vars>>

\* the objects of a prices reply pick_current_price is given: null, or a dict whose
\* deals may include a deal of shop 61 that carries no price
PriceBlocks ==
    { Entry("null", <<>>) }
    \cup { Entry("dict", deals) :
             deals \in UNION { [1 .. n -> DealValues \cup {Deal("dict", 61, "Steam", "None", None)}]
                               : n \in 0 .. MaxDeals } }

\* ItadClient.pick_current_price called on its own
itad_pick_current_price ==
    /\ itad_ret = ItadIdle
    /\ \E price_block \in PriceBlocks :
         LET out == pick_current_price(price_block) IN
         itad_ret' = [ItadIdle EXCEPT !.op = "pick_current_price", !.exc = out.exc,
                                      !.status = IF out.exc = "none" THEN "return" ELSE "raise",
                                      !.price = out, !.deals = price_block.deals]
    /\ UNCHANGED <<itad_client, builder_vars>>
    /\ UNCHANGED <<predictor_vars, insight_vars>>

itad_discard ==
    /\ itad_ret # ItadIdle
    /\ itad_ret' = ItadIdle
    /\ UNCHANGED <<itad_client, builder_vars>>
    /\ UNCHANGED <<predictor_vars, insight_vars>>

ItadInit ==
    itad_client \in [api_key : BOOLEAN, base_url : BOOLEAN] /\ itad_ret = ItadIdle

\* the module's itad_client as the other components find it: configured or without key
ItadAtRest ==
    /\ itad_client \in { [api_key |-> TRUE, base_url |-> TRUE],
                         [api_key |-> FALSE, base_url |-> TRUE] }
    /\ itad_ret = ItadIdle

-----------------------------------------------------------------------------
(* FeatureBuilder: feature_builder.py *)

\* prices are in cents, size and median values in tenths, logarithms and the
\* products of a price and a size in thousandths
Cents == 100

\* math.log of a price in cents, in thousandths
math_log(cents) ==
    CASE cents = 1000 -> 2303
      [] cents = 1499 -> 2707
      [] cents = 1500 -> 2708
      [] cents = 2000 -> 2996
      [] cents = 2999 -> 3401
      [] cents = 3000 -> 3401
      [] cents = 4500 -> 3807
      [] cents = 4999 -> 3912
      [] cents = 5000 -> 3912
      [] cents = 6000 -> 4094

\* digits of a str
digit(c) ==
    CASE c = "0" -> 0 [] c = "1" -> 1 [] c = "2" -> 2 [] c = "3" -> 3 [] c = "4" -> 4
      [] c = "5" -> 5 [] c = "6" -> 6 [] c = "7" -> 7 [] c = "8" -> 8 [] c = "9" -> 9
      [] OTHER -> 10

all_digits(s) == \A i \in 1 .. Len(s) : digit(s[i]) < 10

RECURSIVE number(_)
number(s) == IF Len(s) = 0 THEN 0 ELSE 10 * number(SubSeq(s, 1, Len(s) - 1)) + digit(s[Len(s)])

days_in_month(y, m) ==
    IF m = 2 THEN (IF (y % 4 = 0 /\ y % 100 # 0) \/ y % 400 = 0 THEN 29 ELSE 28)
    ELSE IF m \in {4, 6, 9, 11} THEN 30 ELSE 31

\* datetime.weekday(): Monday is 0
weekday(y, m, d) ==
    LET t == <<0, 3, 2, 5, 0, 3, 5, 1, 4, 6, 2, 4>>
        yy == IF m < 3 THEN y - 1 ELSE y
        sunday0 == (yy + (yy \div 4) - (yy \div 100) + (yy \div 400) + t[m] + d) % 7
    IN  (sunday0 + 6) % 7

NoDate == [ok |-> FALSE, year |-> 0, month |-> 0, day |-> 0]

\* datetime.strptime(s, "%Y-%m-%d") on the characters s
strptime(s) ==
    LET dashes == { i \in 1 .. Len(s) : s[i] = "-" } IN
    IF Cardinality(dashes) # 2 THEN NoDate
    ELSE LET i1 == CHOOSE i \in dashes : \A j \in dashes : i <= j
             i2 == CHOOSE i \in dashes : \A j \in dashes : i >= j
             ys == SubSeq(s, 1, i1 - 1)
             ms == SubSeq(s, i1 + 1, i2 - 1)
             ds == SubSeq(s, i2 + 1, Len(s))
         IN  IF /\ Len(ys) = 4 /\ Len(ms) \in {1, 2} /\ Len(ds) \in {1, 2}
                /\ all_digits(ys) /\ all_digits(ms) /\ all_digits(ds)
                /\ number(ys) >= 1 /\ number(ms) \in 1 .. 12
                /\ number(ds) \in 1 .. days_in_month(number(ys), number(ms))
             THEN [ok |-> TRUE, year |-> number(ys), month |-> number(ms),
                   day |-> number(ds)]
             ELSE NoDate

\* a or b
or(a, b) == IF bool(a) THEN a ELSE b

\* _extract_launch_price falling back to price_usd when price cannot be parsed
extract_launch_price_lenient(game) ==
    LET usd == get(game, "price_usd", None)
        price == or(get(game, "price", None), usd)
    IN  IF price = None THEN None
        ELSE IF float(price).exc \in {"TypeError", "ValueError"}
        THEN (IF usd # None /\ float(usd).exc = "none" THEN Num(float(usd).n) ELSE None)
        ELSE Num(float(price).n)

\* FeatureBuilder._extract_launch_price: cents, or None
extract_launch_price(game) ==
    LET price == or(get(game, "price", None), get(game, "price_usd", None)) IN
    IF price = None THEN None
    ELSE IF float(price).exc \in {"TypeError", "ValueError"} THEN None
    ELSE Num(float(price).n)

\* FeatureBuilder._extract_release_date
extract_release_date(game) ==
    LET raw == or(or(get(game, "release_date", None), get(game, "released", None)),
                  get(game, "date", None))
    IN  IF ~bool(raw) THEN NoDate
        ELSE IF raw.t # "str" THEN NoDate
        ELSE strptime(SubSeq(raw.s, 1, IF Len(raw.s) < 10 THEN Len(raw.s) ELSE 10))

\* _estimate_size_from_price with the upper end of each band inclusive
estimate_size_inclusive(price) ==
    LET p == IF price <= 0 THEN 10 * Cents ELSE price
        size_bin == IF p <= 15 * Cents THEN "Small"
                    ELSE IF p <= 30 * Cents THEN "Medium"
                    ELSE IF p <= 50 * Cents THEN "Large"
                    ELSE "Major"
        size_log == IF p <= 15 * Cents THEN 12
                    ELSE IF p <= 30 * Cents THEN 20
                    ELSE IF p <= 50 * Cents THEN 27
                    ELSE 34
    IN  [size_log |-> size_log,
         bins |-> [b \in {"Small", "Medium", "Large", "Major"} |->
                      IF b = size_bin THEN 1 ELSE 0]]

\* FeatureBuilder._estimate_size_from_price; price in cents, size_log in tenths
estimate_size_from_price(price) ==
    LET p == IF price <= 0 THEN 10 * Cents ELSE price
        size_bin == IF p < 15 * Cents THEN "Small"
                    ELSE IF p < 30 * Cents THEN "Medium"
                    ELSE IF p < 50 * Cents THEN "Large"
                    ELSE "Major"
        size_log == IF p < 15 * Cents THEN 12
                    ELSE IF p < 30 * Cents THEN 20
                    ELSE IF p < 50 * Cents THEN 27
                    ELSE 34
    IN  [size_log |-> size_log,
         bins |-> [b \in {"Small", "Medium", "Large", "Major"} |->
                      IF b = size_bin THEN 1 ELSE 0]]

\* the tags value of a game: absent, null, or a list whose items are strs or not
Tags(t, items) == [t |-> t, items |-> items]

TagStr(s) == [t |-> "str", s |-> s]

TagInt == [t |-> "int", s |-> <<>>]

cluster_keywords ==
    [ genre_cluster_strategy_sim_y |->
          <<<<"s", "t", "r", "a", "t", "e", "g", "y">>, <<"s", "i", "m", "u", "l", "a", "t", "i", "o", "n">>, <<"4", "x">>, <<"g", "r", "a", "n", "d", " ", "s", "t", "r", "a", "t", "e", "g", "y">>>>,
      genre_cluster_mmo_y |->
          <<<<"m", "m", "o">>, <<"o", "n", "l", "i", "n", "e">>, <<"m", "u", "l", "t", "i", "p", "l", "a", "y", "e", "r">>>>,
      genre_cluster_story_action_mainstream |->
          <<<<"a", "c", "t", "i", "o", "n">>, <<"a", "d", "v", "e", "n", "t", "u", "r", "e">>, <<"s", "t", "o", "r", "y">>, <<"r", "p", "g">>>>,
      genre_cluster_sports_competitive |->
          <<<<"s", "p", "o", "r", "t", "s">>, <<"r", "a", "c", "i", "n", "g">>, <<"c", "o", "m", "p", "e", "t", "i", "t", "i", "v", "e">>>> ]

\* the clusters in the order of the dict _map_tags_to_genre_clusters returns
cluster_names ==
    << "genre_cluster_strategy_sim_y", "genre_cluster_mmo_y",
       "genre_cluster_story_action_mainstream", "genre_cluster_sports_competitive" >>

\* _map_tags_to_genre_clusters matching a keyword anywhere inside a tag
map_tags_substring(tags) ==
    IF tags.t # "list" THEN [exc |-> "TypeError", flags |-> <<>>]
    ELSE IF \E i \in 1 .. Len(tags.items) : tags.items[i].t # "str"
    THEN [exc |-> "AttributeError", flags |-> <<>>]
    ELSE [exc |-> "none",
          flags |-> [c \in DOMAIN cluster_keywords |->
                       IF \E k \in 1 .. Len(cluster_keywords[c]), i \in 1 .. Len(tags.items) :
                             contains(lower(tags.items[i].s), cluster_keywords[c][k])
                       THEN 1 ELSE 0]]

\* FeatureBuilder._map_tags_to_genre_clusters: a keyword counts when it is an element
\* of the lower-cased tag list
map_tags_to_genre_clusters(tags) ==
    IF tags.t # "list" THEN [exc |-> "TypeError", flags |-> <<>>]
    ELSE IF \E i \in 1 .. Len(tags.items) : tags.items[i].t # "str"
    THEN [exc |-> "AttributeError", flags |-> <<>>]
    ELSE LET tags_lower == { lower(tags.items[i].s) : i \in 1 .. Len(tags.items) } IN
         [exc |-> "none",
          flags |-> [c \in DOMAIN cluster_keywords |->
                       IF \E k \in 1 .. Len(cluster_keywords[c]) :
                             cluster_keywords[c][k] \in tags_lower
                       THEN 1 ELSE 0]]

\* the franchise loop rounding the median to the nearest integer
RECURSIVE franchise_loop_rounds(_, _, _)
franchise_loop_rounds(table, flags, i) ==
    IF i > Len(cluster_names) THEN 1
    ELSE IF flags[cluster_names[i]] = 1 /\ cluster_names[i] \in DOMAIN table
         THEN (table[cluster_names[i]] + 5) \div 10
         ELSE franchise_loop_rounds(table, flags, i + 1)

\* the franchise estimate: the first active cluster of the table, int() of its median
RECURSIVE franchise_loop(_, _, _)
franchise_loop(table, flags, i) ==
    IF i > Len(cluster_names) THEN 1
    ELSE IF flags[cluster_names[i]] = 1 /\ cluster_names[i] \in DOMAIN table
         THEN table[cluster_names[i]] \div 10
         ELSE franchise_loop(table, flags, i + 1)

estimated_franchise_count(table, flags) ==
    IF DOMAIN table # {} THEN franchise_loop(table, flags, 1) ELSE 1

pc_shops ==
    {"Steam", "GOG", "Epic Games Store", "Humble Store", "Green Man Gaming", "Fanatical"}

\* the platform flags with exclusive_steam set whenever Steam is among the PC shops
platform_flags_steam_listed(shops) ==
    LET pc_present == shops \cap pc_shops
        multi == IF Cardinality(pc_present) > 1 THEN 1 ELSE 0
        exclusive == IF "Steam" \in pc_present THEN 1 ELSE 0
    IN  IF shops = {}
        THEN [is_multi_store_pc |-> 0, exclusive_steam |-> 0,
              is_multiplatform_refined |-> 0, is_cross_platform |-> 0]
        ELSE [is_multi_store_pc |-> multi, exclusive_steam |-> exclusive,
              is_multiplatform_refined |-> IF multi # 0 THEN 1 ELSE 0,
              is_cross_platform |-> 0]

\* the platform flags of build_from_itad from the shop names
platform_flags(shops) ==
    LET pc_present == shops \cap pc_shops
        multi == IF Cardinality(pc_present) > 1 THEN 1 ELSE 0
        exclusive == IF pc_present # {} /\ \A s \in pc_present : s = "Steam" THEN 1 ELSE 0
    IN  IF shops = {}
        THEN [is_multi_store_pc |-> 0, exclusive_steam |-> 0,
              is_multiplatform_refined |-> 0, is_cross_platform |-> 0]
        ELSE [is_multi_store_pc |-> multi, exclusive_steam |-> exclusive,
              is_multiplatform_refined |-> IF multi # 0 THEN 1 ELSE 0,
              is_cross_platform |-> 0]

\* the feature map a failed call leaves: none
NoFeatures == [k \in {} |-> None]

BuildIdle ==
    [op |-> "none", status |-> "idle", exc |-> "none", game |-> NoFeatures,
     tags |-> Tags("absent", <<>>), shops_asked |-> FALSE, shops |-> {},
     f |-> NoFeatures, missing |-> {}, price |-> 0, utcnow_year |-> 0,
     genre_flags |-> <<>>, lookup |-> "none"]

BuildRaised(exc, game, asked) ==
    [BuildIdle EXCEPT !.op = "build_from_itad", !.status = "raise", !.exc = exc,
                      !.game = game.d, !.tags = game.tags, !.shops_asked = asked]

\* the keys of the completeness check of build_from_itad
required_keys == { AllFeatureNames[i] : i \in 1 .. Len(AllFeatureNames) }

\* FeatureBuilder.build_from_itad; game is [d, tags]: the dict without its tags, and
\* its tags; reply is what the prices request gets if the shop lookup is made
build_from_itad_outcome(table, client, now_year, game, reply) ==
    LET extracted == extract_launch_price(game.d)
        price == IF extracted = None \/ extracted.n <= 0 THEN 60 * Cents ELSE extracted.n
        parsed == extract_release_date(game.d)
        release_date == IF parsed.ok THEN parsed
                        ELSE [ok |-> TRUE, year |-> now_year, month |-> 12, day |-> 1]
        month == release_date.month
        itad_id == get(game.d, "id", None)
        asked == bool(itad_id) /\ Itad_is_enabled(client)
        looked == IF asked THEN get_game_shops(client, reply)
                  ELSE [exc |-> "none", shops |-> {}]
        platform == platform_flags(looked.shops)
        size == estimate_size_from_price(price)
        tags == IF game.tags.t = "absent" THEN Tags("list", <<>>) ELSE game.tags
        genre == map_tags_to_genre_clusters(tags)
        f == ("log_launch_price" :> Num(math_log(price)))
             @@ ("release_year" :> Num(release_date.year))
             @@ ("release_month" :> Num(month))
             @@ ("release_quarter" :> Num(((month - 1) \div 3) + 1))
             @@ ("release_weekday" :> Num(weekday(release_date.year, month, release_date.day)))
             @@ ("is_holiday_season" :> Num(IF month \in {11, 12} THEN 1 ELSE 0))
             @@ ("is_summer_sale_window" :> Num(IF month \in {6, 7} THEN 1 ELSE 0))
             @@ ("is_autumn_sale_window" :> Num(IF month = 10 THEN 1 ELSE 0))
             @@ ("within_7d_of_steam_sale" :> Num(IF month \in {6, 11, 12} THEN 1 ELSE 0))
             @@ ("early_access" :> Num(IF bool(get(game.d, "early_access", Bool(FALSE))) THEN 1 ELSE 0))
             @@ ("mature" :> Num(IF bool(get(game.d, "mature", Bool(FALSE))) THEN 1 ELSE 0))
             @@ ("Achievements" :> Num(IF bool(get(game.d, "achievements", Bool(TRUE))) THEN 1 ELSE 0))
             @@ ("is_multi_store_pc" :> Num(platform.is_multi_store_pc))
             @@ ("exclusive_steam" :> Num(platform.exclusive_steam))
             @@ ("is_multiplatform_refined" :> Num(platform.is_multiplatform_refined))
             @@ ("is_cross_platform" :> Num(platform.is_cross_platform))
             @@ ("publisher_size_log" :> Num(size.size_log))
             @@ ("publisher_size_bin__Small" :> Num(size.bins["Small"]))
             @@ ("publisher_size_bin__Medium" :> Num(size.bins["Medium"]))
             @@ ("publisher_size_bin__Large" :> Num(size.bins["Large"]))
             @@ ("publisher_size_bin__Major" :> Num(size.bins["Major"]))
             @@ ("developer_size_log" :> Num(size.size_log))
             @@ ("developer_size_bin__Solo" :> Num(size.bins["Small"]))
             @@ ("developer_size_bin__Small" :> Num(size.bins["Medium"]))
             @@ ("developer_size_bin__Mid" :> Num(size.bins["Large"]))
             @@ ("developer_size_bin__Large" :> Num(size.bins["Major"]))
             @@ ("franchise_count_prev" :> Num(estimated_franchise_count(table, genre.flags)))
             @@ ("price_x_multiplatform" :> Num(price * platform.is_multiplatform_refined))
             @@ ("publisher_x_multiplatform" :> Num(size.size_log * platform.is_multiplatform_refined))
             @@ ("developer_x_multiplatform" :> Num(size.size_log * platform.is_multiplatform_refined))
             @@ ("price_x_pubsize" :> Num(price * size.size_log))
             @@ ("price_x_devsize" :> Num(price * size.size_log))
             @@ ("genre_cluster_strategy_sim" :> Num(genre.flags["genre_cluster_strategy_sim_y"]))
             @@ ("genre_cluster_mmo" :> Num(genre.flags["genre_cluster_mmo_y"]))
        lookup == IF asked THEN reply.kind ELSE "none"
    IN  IF looked.exc # "none"
        THEN [BuildRaised(looked.exc, game, asked) EXCEPT !.lookup = lookup]
        ELSE IF genre.exc # "none"
        THEN [BuildRaised(genre.exc, game, asked) EXCEPT !.lookup = lookup]
        ELSE [BuildIdle EXCEPT !.op = "build_from_itad", !.status = "return",
                               !.lookup = lookup,
                               !.game = game.d, !.tags = game.tags,
                               !.shops_asked = asked, !.shops = looked.shops, !.f = f,
                               !.missing = required_keys \ DOMAIN f,
                               !.price = price,
                               !.utcnow_year = IF parsed.ok THEN 0 ELSE now_year,
                               !.genre_flags = genre.flags]

\* the contents of the median file of _load_franchise_map, in tenths; the empty
\* table when the file is missing
FranchiseMaps ==
    { NoFeatures,
      ("genre_cluster_strategy_sim_y" :> 25) @@ ("genre_cluster_mmo_y" :> 40),
      ("genre_cluster_sports_competitive" :> 36) @@ ("genre_cluster_puzzle" :> 10) }

\* values a metadata dict can bind each key to
GameValues ==
    [ price |-> { None, Num(0), Num(0 - 500), Num(1499), Num(1500), Num(2999),
                  Num(4500), Num(5000), BadStr, ListVal },
      price_usd |-> { Num(2000), BadStr },
      release_date |-> { None, Str(<<>>), Str(<<"2", "0", "2", "5", "-", "0", "6", "-", "1", "5">>),
                         Str(<<"2", "0", "2", "6", "-", "1", "2", "-", "2", "5", "T", "1", "0", ":", "0", "0">>), Str(<<"T", "B", "A">>),
                         Num(20250615) },
      released |-> { Str(<<"2", "0", "2", "4", "-", "1", "0", "-", "0", "1">>) },
      date |-> { Str(<<"2", "0", "2", "5", "-", "0", "2", "-", "3", "0">>) },
      releaseDate |-> { Str(<<"2", "0", "2", "5", "-", "0", "7", "-", "0", "4">>) },
      early_access |-> { Bool(TRUE), Bool(FALSE), Str(<<"n", "o">>), None },
      mature |-> { Bool(TRUE), Num(0) },
      achievements |-> { Bool(TRUE), Bool(FALSE), None },
      id |-> { Str(<<"g", "1">>), Str(<<>>), None } ]

TagValues ==
    { Tags("None", <<>>),
      Tags("list", <<>>),
      Tags("list", <<TagStr(<<"S", "t", "r", "a", "t", "e", "g", "y">>)>>),
      Tags("list", <<TagStr(<<"R", "e", "a", "l", "-", "T", "i", "m", "e", " ", "S", "t", "r", "a", "t", "e", "g", "y">>)>>),
      Tags("list", <<TagStr(<<"R", "a", "c", "i", "n", "g">>), TagStr(<<"M", "M", "O">>)>>),
      Tags("list", <<TagStr(<<"r", "p", "g">>), TagInt>>) }

RECURSIVE DictsOver(_)
DictsOver(D) ==
    IF D = {} THEN { NoFeatures }
    ELSE LET k == CHOOSE x \in D : TRUE IN
         { (k :> v) @@ d : v \in GameValues[k], d \in DictsOver(D \ {k}) }

\* the metadata dicts with at most MaxGameKeys keys
Games ==
    UNION { { [d |-> d, tags |-> Tags("absent", <<>>)] : d \in DictsOver(D) } \cup
            IF Cardinality(D) < MaxGameKeys
            THEN { [d |-> d, tags |-> t] : d \in DictsOver(D), t \in TagValues }
            ELSE {}
          : D \in { E \in SUBSET DOMAIN GameValues : Cardinality(E) <= MaxGameKeys } }

\* datetime.utcnow().year; it is read only when the date is defaulted, and the
\* call is given the year of the date otherwise
CurrentYears == {2025, 2026}

build_from_itad ==
    /\ build_ret = BuildIdle
    /\ \E game \in Games :
         \E now_year \in IF extract_release_date(game.d).ok
                          THEN { extract_release_date(game.d).year }
                          ELSE CurrentYears,
            reply \in IF bool(get(game.d, "id", None)) /\ Itad_is_enabled(itad_client)
                      THEN PricesReplies ELSE { NoReply } :
            build_ret' = build_from_itad_outcome(franchise_map, itad_client, now_year,
                                                  game, reply)
    /\ UNCHANGED <<franchise_map, itad_vars>>
    /\ UNCHANGED <<predictor_vars, insight_vars>>

build_discard ==
    /\ build_ret # BuildIdle
    /\ build_ret' = BuildIdle
    /\ UNCHANGED <<franchise_map, itad_vars>>
    /\ UNCHANGED <<predictor_vars, insight_vars>>

FeatureBuilderInit == franchise_map \in FranchiseMaps /\ build_ret = BuildIdle

\* the module's feature_builder when its median file is missing
FeatureBuilderAtRest == franchise_map = NoFeatures /\ build_ret = BuildIdle

-----------------------------------------------------------------------------
(* The HTTP endpoints: api/main.py *)

\* the response of an endpoint: its status code and the fields of its body; exc and
\* why are those of the failure behind an error response, "none" without one
Response(op, code, exc, why, body) ==
    [Idle EXCEPT !.op = op, !.status = "return", !.status_code = code, !.exc = exc,
                 !.why = why, !.body = body]

\* an exception no handler catches: the server answers 500 Internal Server Error
Unhandled(op, exc, why) == Response(op, 500, exc, why, {"detail"})

\* a decision record of predict as the dict the insight builders are given
record_of(result) ==
    ("horizon" :> Str(IF result.horizon = THIRTY THEN <<"3", "0", "d">> ELSE <<"6", "0", "d">>))
    @@ ("score" :> Num(result.score)) @@ ("threshold" :> Num(result.threshold))
    @@ ("will_discount" :> Bool(result.will_discount))

\* the fields of PredictResponse
PredictResponseFields == {"appid", "horizon", "will_discount", "score", "threshold", "insights"}

\* POST /predict: the handler predict of api/main.py.  A horizon outside the Literal
\* or an empty features dict is rejected by PredictRequest before the handler runs
api_predict_outcome(m30, m60, names, client, enabled, oa_client, oa_model, news, horizon, features, threshold, include_insights, proba_raises, score) ==
    LET op == "POST /predict"
        result == predict_outcome(m30, m60, names, client, horizon, features, threshold,
                                  proba_raises, score)
        insights == build_insights_outcome(enabled, oa_client, oa_model, news,
                                           record_of(result), features, None,
                                           Http("timeout", <<>>), OpenAI("raise", <<>>))
    IN  IF horizon \notin {THIRTY, SIXTY} \/ DOMAIN features = {}
        THEN Response(op, 422, "ValidationError", "request", {"detail"})
        ELSE IF result.exc = "BadRequestError"
        THEN Response(op, 400, result.exc, result.why, {"detail"})
        ELSE IF result.exc = "ModelNotLoadedError"
        THEN Response(op, 503, result.exc, result.why, {"detail"})
        ELSE IF result.exc # "none"
        THEN Response(op, 500, result.exc, result.why, {"detail"})
        ELSE IF include_insights /\ insights.status = "raise"
        THEN Response(op, 500, insights.exc, "insights", {"detail"})
        ELSE [Response(op, 200, "none", "none", PredictResponseFields)
                EXCEPT !.horizon = result.horizon, !.score = result.score,
                       !.threshold = result.threshold,
                       !.will_discount = result.will_discount]

api_predict ==
    /\ predict_ret = Idle
    /\ \E horizon \in Horizons, features \in FeatureMaps, threshold \in Thresholds,
          include_insights \in BOOLEAN, proba_raises \in BOOLEAN, score \in Scores :
          /\ proba_raises => score = 0
          /\ predict_ret' = api_predict_outcome(model_30d, model_60d, feature_names, itad,
                                                openai_enabled, openai_client, openai_model,
                                                news_client, horizon, features, threshold,
                                                include_insights, proba_raises, score)
    /\ UNCHANGED <<model_30d, model_60d, feature_names, itad, load_completed>>
    /\ UNCHANGED <<insight_vars, builder_vars, itad_vars>>

\* GET /health: the handler health_check.  HealthResponse declares status as
\* Literal["ok"], so building it with "loading" raises a ValidationError
health_check_outcome(m30, m60) ==
    LET loaded_30 == m30 # NoModel
        loaded_60 == m60 # NoModel
        status == IF loaded_30 /\ loaded_60 THEN "ok" ELSE "loading"
    IN  IF status # "ok" THEN Unhandled("GET /health", "ValidationError", status)
        ELSE Response("GET /health", 200, "none", status,
                      {"status", "model_30d_loaded", "model_60d_loaded"})

health_check ==
    /\ predict_ret = Idle
    /\ predict_ret' = health_check_outcome(model_30d, model_60d)
    /\ UNCHANGED <<model_30d, model_60d, feature_names, itad, load_completed>>
    /\ UNCHANGED <<insight_vars, builder_vars, itad_vars>>

\* _pick_itad_candidate of api/main.py; a result is a dict of search_game
RECURSIVE api_pick_loop(_, _, _)
api_pick_loop(title_lower, results, i) ==
    IF i > Len(results) THEN results[1]
    ELSE LET r == results[i]
             named == or(or(get(r, "name", None), get(r, "title", None)), Str(<<>>))
             candidate_name == strip(lower(named.s))
         IN  IF candidate_name = title_lower THEN r
             ELSE api_pick_loop(title_lower, results, i + 1)

api_pick_itad_candidate(title, results) ==
    IF Len(results) = 0 THEN NoCandidate
    ELSE api_pick_loop(strip(lower(title)), results, 1)

\* _pick_itad_candidate of upcoming_precompute.py
RECURSIVE precompute_pick_loop(_, _, _)
precompute_pick_loop(name_lower, results, i) ==
    IF i > Len(results) THEN results[1]
    ELSE LET r == results[i]
             candidate_name == lower(or(get(r, "name", None), Str(<<>>)).s)
         IN  IF candidate_name = name_lower THEN r
             ELSE precompute_pick_loop(name_lower, results, i + 1)

precompute_pick_itad_candidate(name, results) ==
    IF Len(results) = 0 THEN NoCandidate
    ELSE precompute_pick_loop(lower(name), results, 1)

\* names a caller looks for
SearchedNames == { <<"h", "a", "d", "e", "s">>, <<"Z", "e", "l", "d", "a">> }

\* the caller of search_game hands the list it got to _pick_itad_candidate, of
\* api/main.py or of upcoming_precompute.py
pick_itad_candidate ==
    /\ itad_ret.op = "search_game"
    /\ itad_ret.status = "return"
    /\ \E name \in SearchedNames, module \in {"api", "upcoming_precompute"} :
          itad_ret' = [itad_ret EXCEPT
                         !.op = "_pick_itad_candidate", !.module = module, !.name = name,
                         !.candidate = IF module = "api"
                                       THEN api_pick_itad_candidate(name, itad_ret.results)
                                       ELSE precompute_pick_itad_candidate(name, itad_ret.results)]
    /\ UNCHANGED <<itad_client, builder_vars>>
    /\ UNCHANGED <<predictor_vars, insight_vars>>

\* datetime.fromisoformat(value).date() of _parse_release_date: a date of ten
\* characters, alone or followed by a time
parse_release_date(value) ==
    IF ~bool(value) THEN NoDate
    ELSE IF value.t # "str" THEN NoDate
    ELSE IF Len(value.s) < 10 THEN NoDate
    ELSE IF Len(value.s) > 10 /\ value.s[11] \notin {"T", " "} THEN NoDate
    ELSE IF value.s[5] # "-" \/ value.s[8] # "-" THEN NoDate
    ELSE strptime(SubSeq(value.s, 1, 10))

\* date a < date b
earlier(a, b) ==
    \/ a.year < b.year
    \/ a.year = b.year /\ a.month < b.month
    \/ a.year = b.year /\ a.month = b.month /\ a.day < b.day

\* what get_game_info gives an endpoint: the empty game stands for None
NoInfo == [d |-> NoFeatures, tags |-> Tags("absent", <<>>)]

\* the fields of PredictFromItadResponse and of GameSearchResult
FromItadResponseFields == PredictResponseFields \cup {"name", "image_url"}

GameSearchResultFields ==
    {"appid", "name", "release_date", "price", "image_url", "score_30d", "score_60d",
     "will_discount_30d", "will_discount_60d", "insights"}

\* POST /predict/from_itad: the response of the handler predict_from_itad, given
\* what build_from_itad, predict and build_insights did; no try block in it
predict_from_itad_outcome(itad_cl, info, horizon, include_insights, built, result, insights) ==
    LET op == "POST /predict/from_itad"
        appid == get(info.d, "appid", None)
    IN  IF horizon \notin {THIRTY, SIXTY}
        THEN Response(op, 422, "ValidationError", "request", {"detail"})
        ELSE IF ~Itad_is_enabled(itad_cl)
        THEN Response(op, 503, "none", "itad", {"detail"})
        ELSE IF info = NoInfo THEN Response(op, 404, "none", "info", {"detail"})
        ELSE IF appid = None THEN Response(op, 400, "none", "appid", {"detail"})
        ELSE IF built.status = "raise" THEN Unhandled(op, built.exc, "build_from_itad")
        ELSE IF result.status = "raise" THEN Unhandled(op, result.exc, result.why)
        ELSE IF include_insights /\ insights.status = "raise"
        THEN Unhandled(op, insights.exc, "insights")
        ELSE [Response(op, 200, "none", "none", FromItadResponseFields)
                EXCEPT !.horizon = result.horizon, !.score = result.score,
                       !.threshold = result.threshold,
                       !.will_discount = result.will_discount,
                       !.features = built.f]

\* GET /predict/search: the response of the handler predict_by_title, given what
\* search_game, get_current_price_simple, build_from_itad, the two predict calls
\* and build_combined_insights did
predict_by_title_outcome(itad_cl, today, title, info, searched, priced, built, pred_30, pred_60, insights) ==
    LET op == "GET /predict/search"
        candidate == api_pick_itad_candidate(title, searched.results)
        itad_id == candidate.itad_id
        release_raw == or(get(info.d, "releaseDate", None), get(info.d, "release_date", None))
        release_dt == parse_release_date(release_raw)
    IN  IF ~Itad_is_enabled(itad_cl) THEN Response(op, 503, "none", "itad", {"detail"})
        ELSE IF searched.exc # "none" THEN Response(op, 502, searched.exc, "search", {"detail"})
        ELSE IF Len(searched.results) = 0 THEN Response(op, 404, "none", "search", {"detail"})
        ELSE IF candidate = NoCandidate THEN Response(op, 404, "none", "candidate", {"detail"})
        ELSE IF ~bool(itad_id) THEN Response(op, 500, "none", "itad_id", {"detail"})
        ELSE IF info = NoInfo THEN Unhandled(op, "AttributeError", "game_info")
        ELSE IF priced.exc # "none" THEN Unhandled(op, priced.exc, "price")
        ELSE IF release_dt.ok /\ earlier(release_dt, today)
        THEN Response(op, 200, "none", "released", GameSearchResultFields)
        ELSE IF built.status = "raise"
        THEN Response(op, 500, built.exc, "build_from_itad", {"detail"})
        ELSE IF pred_30.status = "raise"
        THEN Response(op, 500, pred_30.exc, pred_30.why, {"detail"})
        ELSE IF pred_60.status = "raise"
        THEN Response(op, 500, pred_60.exc, pred_60.why, {"detail"})
        ELSE IF insights.status = "raise" THEN Unhandled(op, insights.exc, "insights")
        ELSE [Response(op, 200, "none", "none", GameSearchResultFields)
                EXCEPT !.score = pred_30.score, !.will_discount = pred_30.will_discount,
                       !.features = built.f]

\* game infos ITAD gives the endpoints
ApiGameInfos ==
    { NoInfo,
      [d |-> ("appid" :> Num(620)) @@ ("releaseDate" :> Str(<<"2", "0", "2", "6", "-", "0", "7", "-", "0", "4">>)),
       tags |-> Tags("absent", <<>>)],
      [d |-> ("appid" :> Num(620)) @@ ("release_date" :> Str(<<"2", "0", "2", "6", "-", "0", "7", "-", "0", "4">>)) @@ ("id" :> Str(<<"g", "1">>)),
       tags |-> Tags("list", <<TagStr(<<"S", "t", "r", "a", "t", "e", "g", "y">>)>>)],
      [d |-> ("appid" :> Num(620)) @@ ("releaseDate" :> Str(<<"2", "0", "2", "4", "-", "1", "0", "-", "0", "1">>)),
       tags |-> Tags("absent", <<>>)],
      [d |-> ("appid" :> Num(620)), tags |-> Tags("None", <<>>)],
      [d |-> ("title" :> Str(<<"H", "a", "d", "e", "s">>)), tags |-> Tags("absent", <<>>)] }

\* replies of the prices request to the endpoints
ApiPricesReplies ==
    { Reply("timeout", JsonNull),
      Reply("ok", Json("list", <<Entry("dict", <<Deal("dict", 61, "Steam", "dict", Num(1999))>>)>>)) }

\* replies of the search request to GET /predict/search
ApiSearchReplies ==
    { Reply("timeout", JsonNull),
      Reply("ok", Json("list", <<Item("not_dict", None, None)>>)),
      Reply("ok", Json("list", <<Item("dict", Str(<<"g", "2">>), Str(<<"H", "a", "d", "e", "s", " ", "I", "I">>)), Item("dict", Str(<<"g", "1">>), Str(<<"h", "a", "d", "e", "s">>))>>)) }

\* date.today(), and datetime.utcnow() of the same day
Todays == { [ok |-> TRUE, year |-> 2026, month |-> 1, day |-> 1] }

\* what predict_proba answers one call
Answers ==
    { [proba_raises |-> TRUE, score |-> 0] }
    \cup { [proba_raises |-> FALSE, score |-> s] : s \in {0, 70} }

predict_from_itad ==
    /\ predict_ret = Idle
    /\ \E horizon \in Horizons, threshold \in {None, Num(70)}, include_insights \in BOOLEAN,
          info \in ApiGameInfos, shops_reply \in ApiPricesReplies, today \in Todays,
          answer \in Answers :
          \E built \in { build_from_itad_outcome(franchise_map, itad_client, today.year, info,
                                                 shops_reply) } :
          \E result \in { predict_outcome(model_30d, model_60d, feature_names, itad, horizon,
                                          built.f, threshold, answer.proba_raises,
                                          answer.score) } :
          \E insights \in { build_insights_outcome(
                                openai_enabled, openai_client, openai_model, news_client,
                                record_of(result), built.f,
                                or(get(info.d, "title", None), get(info.d, "name", None)),
                                Http("timeout", <<>>), OpenAI("raise", <<>>)) } :
             predict_ret' = predict_from_itad_outcome(itad_client, info, horizon,
                                                      include_insights, built, result,
                                                      insights)
    /\ UNCHANGED <<model_30d, model_60d, feature_names, itad, load_completed>>
    /\ UNCHANGED <<insight_vars, builder_vars, itad_vars>>

predict_by_title ==
    /\ predict_ret = Idle
    /\ \E title \in { <<" ", "H", "a", "d", "e", "s", " ">>, <<"Z", "e", "l", "d", "a">> },
          search_reply \in ApiSearchReplies, info \in ApiGameInfos,
          prices_reply \in ApiPricesReplies, today \in Todays,
          answer_30 \in Answers, answer_60 \in Answers :
          \E searched \in { search_game(itad_client, 5, search_reply) },
             priced \in { get_current_price_simple(prices_reply) },
             built \in { build_from_itad_outcome(franchise_map, itad_client, today.year, info,
                                                 prices_reply) } :
          \E pred_30 \in { predict_outcome(model_30d, model_60d, feature_names, itad, THIRTY,
                                           built.f, None, answer_30.proba_raises,
                                           answer_30.score) },
             pred_60 \in { predict_outcome(model_30d, model_60d, feature_names, itad, SIXTY,
                                           built.f, None, answer_60.proba_raises,
                                           answer_60.score) } :
          \E insights \in { build_combined_insights_outcome(
                                openai_enabled, openai_client, openai_model, news_client,
                                Str(title), record_of(pred_30), record_of(pred_60), built.f,
                                Http("timeout", <<>>), OpenAI("raise", <<>>)) } :
             predict_ret' = predict_by_title_outcome(itad_client, today, title, info, searched,
                                                     priced, built, pred_30, pred_60, insights)
    /\ UNCHANGED <<model_30d, model_60d, feature_names, itad, load_completed>>
    /\ UNCHANGED <<insight_vars, builder_vars, itad_vars>>

\* startup_event: model_service.load() on the fresh service; a SteamSaleError is
\* logged and the service starts with what load() had assigned
startup_event(m30, m60, names, api_key) ==
    IF m30 = Missing
    THEN [model_30d |-> NoModel, model_60d |-> NoModel, feature_names |-> NoFeatureNames,
          itad |-> NoItad, load_completed |-> FALSE]
    ELSE IF m60 = Missing
    THEN [model_30d |-> m30, model_60d |-> NoModel, feature_names |-> NoFeatureNames,
          itad |-> NoItad, load_completed |-> FALSE]
    ELSE IF names = NoFeatureNames
    THEN [model_30d |-> m30, model_60d |-> m60, feature_names |-> NoFeatureNames,
          itad |-> NoItad, load_completed |-> FALSE]
    ELSE [model_30d |-> m30, model_60d |-> m60, feature_names |-> names,
          itad |-> Predictor_ItadClient(api_key), load_completed |-> TRUE]

\* what the model paths hold at startup: no file, a classifier, or an object
\* without predict_proba
StartupArtifacts == {Missing, 1, NoProbaArtifact}

\* the service once startup_event has run
ApiServiceInit ==
    /\ \E m30 \in StartupArtifacts, m60 \in StartupArtifacts,
          names \in {NoFeatureNames} \cup FeatureFiles, api_key \in BOOLEAN :
          LET started == startup_event(m30, m60, names, api_key) IN
          /\ model_30d = started.model_30d
          /\ model_60d = started.model_60d
          /\ feature_names = started.feature_names
          /\ itad = started.itad
          /\ load_completed = started.load_completed
    /\ predict_ret = Idle

-----------------------------------------------------------------------------
(* Specifications: one per component, the other components at rest *)

Init == PredictorInit /\ InsightAtRest /\ FeatureBuilderAtRest /\ ItadAtRest

Next == load \/ predict \/ discard

\* ModelService
Spec == Init /\ [][Next]_vars

ApiInit == ApiServiceInit /\ InsightAtRest /\ FeatureBuilderAtRest /\ ItadAtRest

ApiNext ==
    \/ api_predict
    \/ predict_by_title
    \/ predict_from_itad
    \/ health_check
    \/ discard

\* the HTTP endpoints over the started service
SpecApi == ApiInit /\ [][ApiNext]_vars

InsightInit ==
    PredictorInit /\ InsightServiceInit /\ FeatureBuilderAtRest /\ ItadAtRest

InsightNext ==
    \/ build_insights
    \/ build_combined_insights
    \/ insight_extract_contextual_factors
    \/ insight_extract_again
    \/ insight_fallback_combined_bullets
    \/ insight_make_confidence_comment
    \/ news_is_relevant_article
    \/ news_fetch_game_news
    \/ insight_discard

\* InsightService
SpecInsight == InsightInit /\ [][InsightNext]_vars

BuilderInit == PredictorInit /\ InsightAtRest /\ FeatureBuilderInit /\ ItadAtRest

BuilderNext == build_from_itad \/ build_discard

\* FeatureBuilder
SpecBuilder == BuilderInit /\ [][BuilderNext]_vars

ItadClientInit == PredictorInit /\ InsightAtRest /\ FeatureBuilderAtRest /\ ItadInit

ItadNext ==
    \/ itad_search_game
    \/ itad_get_game_info
    \/ itad_get_game_shops
    \/ itad_get_price_overview_v3
    \/ itad_get_current_price_simple
    \/ itad_pick_current_price
    \/ pick_itad_candidate
    \/ itad_discard

\* ItadClient
SpecItad == ItadClientInit /\ [][ItadNext]_vars

-----------------------------------------------------------------------------
(* Claims about ModelService, checked under Spec *)

PredictCalled == predict_ret.op = "predict"

PredictReturned == PredictCalled /\ predict_ret.status = "return"

PredictRaised(exc) == PredictCalled /\ predict_ret.status = "raise" /\ predict_ret.exc = exc

\* C2: every decision record predict returns has will_discount = (score >= threshold),
\* where threshold is the caller's value whenever one was supplied (0 included) and
\* the default 0.5 only when none was supplied.
C2_DecisionConsistency ==
    PredictReturned =>
        /\ predict_ret.will_discount = (predict_ret.score >= predict_ret.threshold)
        /\ predict_ret.threshold =
              IF predict_ret.threshold_arg = None THEN default_threshold
              ELSE predict_ret.threshold_arg.n

\* a record returned at the boundary score = threshold for the supplied threshold 0
C2_Witness ==
    /\ PredictReturned
    /\ predict_ret.threshold_arg = Num(0)
    /\ predict_ret.score = 0
    /\ predict_ret.will_discount

\* C3: while no load() attempt has completed, predict with a valid horizon fails
\* with ModelNotLoaded and returns no decision record.
C3_NotLoaded ==
    (PredictCalled /\ ~load_completed /\ is_valid(predict_ret.horizon)) =>
        PredictRaised("ModelNotLoadedError")

\* predict refused after a load() that failed at the feature-list step, with both
\* classifier handles already assigned
C3_Witness ==
    /\ PredictRaised("ModelNotLoadedError")
    /\ ~load_completed
    /\ model_30d # NoModel
    /\ model_60d # NoModel
    /\ is_valid(predict_ret.horizon)

Vectorized ==
    /\ PredictCalled
    /\ is_valid(predict_ret.horizon)
    /\ model_30d # NoModel
    /\ model_60d # NoModel
    /\ feature_names # NoFeatureNames
    /\ feature_names # <<>>

Schema == { feature_names[i] : i \in 1 .. Len(feature_names) }

\* schema names the caller's map does not hold
AbsentKeys == { k \in Schema : k \notin DOMAIN predict_ret.features }

\* schema names the map binds to null
NullKeys == { k \in Schema \cap DOMAIN predict_ret.features : predict_ret.features[k] = None }

\* schema names the map binds to a value, not null, that float() rejects
RejectedKeys ==
    { k \in Schema \cap DOMAIN predict_ret.features :
         /\ predict_ret.features[k] # None
         /\ float(predict_ret.features[k]).exc # "none" }

InSchemaOrder(S) == SelectSeq(feature_names, LAMBDA k : k \in S)

Named(k) == \E i \in 1 .. Len(predict_ret.keys) : predict_ret.keys[i] = k

-----------------------------------------------------------------------------
(* Claims about InsightService, checked under SpecInsight *)

CombinedReturned ==
    insight_ret.op = "build_combined_insights" /\ insight_ret.status = "return"

\* C1: build_combined_insights returns a 'bullets' list of exactly 3 entries, whether
\* the generative collaborator is not configured, raises, answers with a malformed
\* response or answers with any number of non-empty lines.
C1_ExactlyThreeBullets ==
    CombinedReturned => Len(insight_ret.bullets) = 3

\* C9: build_insights and build_combined_insights never raise and always return the
\* complete rationale shape (4 keys, respectively 7 keys), for every outcome of the
\* collaborators and any decision records and feature map.
C9_InsightsNeverRaise ==
    /\ insight_ret.op = "build_insights" =>
          /\ insight_ret.status = "return"
          /\ insight_ret.keys = {"sale_confidence_comment", "contextual_factors", "news",
                                 "openai_summary"}
    /\ insight_ret.op = "build_combined_insights" =>
          /\ insight_ret.status = "return"
          /\ insight_ret.keys = {"score_30d", "score_60d", "will_discount_30d",
                                 "will_discount_60d", "contextual_factors", "news",
                                 "bullets"}


-----------------------------------------------------------------------------
(* Claims about FeatureBuilder, checked under SpecBuilder *)

BuildCalled == build_ret.op = "build_from_itad"

BuildReturned == BuildCalled /\ build_ret.status = "return"

\* C7: for any metadata dict and any outcome of the shop lookup, build_from_itad
\* returns a map binding each of the 34 keys of its completeness check to a number,
\* and the missing-keys warning is not emitted
C7_CompleteNumericMap ==
    BuildCalled =>
        /\ build_ret.status = "return"
        /\ build_ret.missing = {}
        /\ \A k \in required_keys :
              k \in DOMAIN build_ret.f /\ build_ret.f[k].t = "num"

\* C8: build_from_itad never raises, whatever the metadata dict holds
C8_BuildNeverRaises == BuildCalled => build_ret.status # "raise"

\* the tags build_from_itad worked on: game.get("tags", [])
TagsUsed == IF build_ret.tags.t = "absent" THEN <<>> ELSE build_ret.tags.items

\* some tag contains keyword k of cluster c, ignoring case
TagContains(c, k) ==
    \E i \in 1 .. Len(TagsUsed) : contains(lower(TagsUsed[i].s), cluster_keywords[c][k])

\* some tag is keyword k of cluster c, ignoring case
TagEquals(c, k) ==
    \E i \in 1 .. Len(TagsUsed) : lower(TagsUsed[i].s) = cluster_keywords[c][k]

\* C13 as stated: a cluster flag is 1 exactly when some tag contains one of the
\* cluster's keywords as a substring, ignoring case, and 0 otherwise
C13_SubstringMatch ==
    BuildReturned =>
        \A c \in DOMAIN cluster_keywords :
            build_ret.genre_flags[c] =
                IF \E k \in 1 .. Len(cluster_keywords[c]) : TagContains(c, k) THEN 1 ELSE 0

\* C13 amended: a cluster flag is 1 exactly when some tag, lower-cased, is equal to
\* one of the cluster's keywords, and 0 otherwise; the two flags stored in the map
\* are those of the strategy/simulation and MMO clusters
C13_WholeTagMatch ==
    BuildReturned =>
        /\ \A c \in DOMAIN cluster_keywords :
              build_ret.genre_flags[c] =
                  IF \E k \in 1 .. Len(cluster_keywords[c]) : TagEquals(c, k) THEN 1 ELSE 0
        /\ build_ret.f["genre_cluster_strategy_sim"].n =
              build_ret.genre_flags["genre_cluster_strategy_sim_y"]
        /\ build_ret.f["genre_cluster_mmo"].n = build_ret.genre_flags["genre_cluster_mmo_y"]

\* the tags "Racing" and "MMO", equal to keywords but for their case, set the
\* sports and MMO flags and leave the other two 0
C13_Witness ==
    /\ BuildReturned
    /\ TagEquals("genre_cluster_sports_competitive", 2)
    /\ \A i \in 1 .. Len(TagsUsed) : TagsUsed[i].s # lower(TagsUsed[i].s)
    /\ build_ret.genre_flags["genre_cluster_sports_competitive"] = 1
    /\ build_ret.genre_flags["genre_cluster_mmo_y"] = 1
    /\ build_ret.genre_flags["genre_cluster_strategy_sim_y"] = 0

\* the clusters, in declaration order, that are active and have a median in the table
KnownActive ==
    SelectSeq(cluster_names,
              LAMBDA c : build_ret.genre_flags[c] = 1 /\ c \in DOMAIN franchise_map)

\* the median of the first such cluster, in tenths
FirstMedian == franchise_map[KnownActive[1]]

FranchiseCount == build_ret.f["franchise_count_prev"].n

\* C14 as stated: franchise_count_prev is 1 unless some active cluster has a median
\* in the table; otherwise it is the median of the first such cluster in declaration
\* order, rounded to the nearest integer (either neighbour when it lies half-way)
C14_NearestInteger ==
    BuildReturned =>
        IF Len(KnownActive) = 0 THEN FranchiseCount = 1
        ELSE /\ 10 * FranchiseCount - FirstMedian <= 5
             /\ FirstMedian - 10 * FranchiseCount <= 5

\* C14 amended: the median of the first such cluster is truncated to its integer
\* part by int(); with no such cluster, and so with an empty table, the count is 1
C14_Truncated ==
    BuildReturned =>
        /\ FranchiseCount = IF Len(KnownActive) = 0 THEN 1 ELSE FirstMedian \div 10
        /\ DOMAIN franchise_map = {} => FranchiseCount = 1

\* the sports cluster is active with the median 3.6, behind an active MMO cluster
\* that the table does not know: the count is 3
C14_Witness ==
    /\ BuildReturned
    /\ Len(KnownActive) > 0
    /\ KnownActive[1] # cluster_names[1]
    /\ build_ret.genre_flags["genre_cluster_mmo_y"] = 1
    /\ FirstMedian % 10 > 5
    /\ FranchiseCount = FirstMedian \div 10

\* the publisher and the developer bins, smallest first
publisher_bins ==
    << "publisher_size_bin__Small", "publisher_size_bin__Medium",
       "publisher_size_bin__Large", "publisher_size_bin__Major" >>

developer_bins ==
    << "developer_size_bin__Solo", "developer_size_bin__Small",
       "developer_size_bin__Mid", "developer_size_bin__Large" >>

\* the band of a price in cents: 1 below $15, 2 below $30, 3 below $50, 4 from $50
PriceBand(p) ==
    IF p < 15 * Cents THEN 1 ELSE IF p < 30 * Cents THEN 2 ELSE IF p < 50 * Cents THEN 3 ELSE 4

\* the size_log of each band, in tenths: 1.2, 2.0, 2.7, 3.4
BandSizeLog == <<12, 20, 27, 34>>

\* C15: for every price exactly one publisher bin and exactly one developer bin is 1,
\* at the same position, the one of the price's band (< 15 Small/1.2, < 30 Medium/2.0,
\* < 50 Large/2.7, otherwise Major/3.4); publisher_size_log equals developer_size_log
\* and price_x_pubsize is price * publisher_size_log
C15_SizeHeuristic ==
    BuildReturned =>
        LET band == PriceBand(build_ret.price) IN
        /\ \A i \in 1 .. 4 :
              /\ build_ret.f[publisher_bins[i]].n = (IF i = band THEN 1 ELSE 0)
              /\ build_ret.f[developer_bins[i]].n = (IF i = band THEN 1 ELSE 0)
        /\ build_ret.f["publisher_size_log"].n = BandSizeLog[band]
        /\ build_ret.f["developer_size_log"].n = build_ret.f["publisher_size_log"].n
        /\ build_ret.f["price_x_pubsize"].n =
              build_ret.price * build_ret.f["publisher_size_log"].n

\* price 45 gives the Large bin and price_x_pubsize 45 * 2.7
C15_Witness ==
    /\ BuildReturned
    /\ build_ret.price = 45 * Cents
    /\ build_ret.f["publisher_size_bin__Large"].n = 1
    /\ build_ret.f["developer_size_bin__Mid"].n = 1
    /\ build_ret.f["price_x_pubsize"].n = 45 * 27 * Cents

\* the metadata mapping of the call is empty
EmptyMetadata == build_ret.game = NoFeatures /\ build_ret.tags.t = "absent"

\* the value the price is read from: price, or price_usd when price is absent, null or 0
RawPrice ==
    LET price == get(build_ret.game, "price", None)
    IN  IF price = None \/ (price.t = "num" /\ price.n = 0)
        THEN get(build_ret.game, "price_usd", None)
        ELSE price

\* C16: for the empty metadata mapping build_from_itad yields December 1 of the
\* current year, price 60.0 and so the Major bin, franchise_count_prev 1 and the four
\* platform flags 0; the price is 60.0 whenever it is absent, unparseable or <= 0,
\* and the number given otherwise
C16_Defaults ==
    BuildReturned =>
        /\ EmptyMetadata =>
              /\ build_ret.utcnow_year \in CurrentYears
              /\ build_ret.f["release_year"].n = build_ret.utcnow_year
              /\ build_ret.f["release_month"].n = 12
              /\ build_ret.f["release_weekday"].n = weekday(build_ret.utcnow_year, 12, 1)
              /\ build_ret.price = 60 * Cents
              /\ build_ret.f["log_launch_price"].n = math_log(60 * Cents)
              /\ build_ret.f["publisher_size_bin__Major"].n = 1
              /\ build_ret.f["franchise_count_prev"].n = 1
              /\ \A k \in {"is_multi_store_pc", "exclusive_steam", "is_multiplatform_refined",
                           "is_cross_platform"} : build_ret.f[k].n = 0
        /\ build_ret.price = IF RawPrice.t = "num" /\ RawPrice.n > 0 THEN RawPrice.n
                             ELSE 60 * Cents
        /\ build_ret.f["log_launch_price"].n = math_log(build_ret.price)

\* the empty mapping, built in 2026
C16_Witness ==
    /\ BuildReturned
    /\ EmptyMetadata
    /\ build_ret.f["release_year"].n = 2026
    /\ build_ret.f["release_month"].n = 12
    /\ build_ret.price = 60 * Cents
    /\ DOMAIN franchise_map # {}

\* the recognized PC storefronts among the names the shop lookup returned
Listed == build_ret.shops \cap pc_shops

PlatformFlag(k) == build_ret.f[k].n

\* the shop lookup was made and its request timed out, got an error status or a body
\* that is no JSON
LookupFailed == build_ret.lookup \in {"timeout", "non_200", "bad_json"}

\* C17: is_multi_store_pc is 1 exactly when more than one recognized PC storefront
\* lists the game, exclusive_steam is 1 exactly when Steam is the only recognized
\* storefront listing it, the two are never both 1, is_multiplatform_refined equals
\* is_multi_store_pc, and all platform flags are 0 when the game has no id or the
\* lookup is disabled, fails or returns nothing; a failed lookup raises nothing, so
\* a call that raises after one does so on the tags
C17_PlatformFlags ==
    /\ BuildCalled /\ LookupFailed /\ build_ret.status = "raise" =>
          map_tags_to_genre_clusters(build_ret.tags).exc = build_ret.exc
    /\ BuildReturned =>
        /\ PlatformFlag("is_multi_store_pc") = (IF Cardinality(Listed) > 1 THEN 1 ELSE 0)
        /\ PlatformFlag("exclusive_steam") = (IF Listed = {"Steam"} THEN 1 ELSE 0)
        /\ ~(PlatformFlag("is_multi_store_pc") = 1 /\ PlatformFlag("exclusive_steam") = 1)
        /\ PlatformFlag("is_multiplatform_refined") = PlatformFlag("is_multi_store_pc")
        /\ build_ret.shops_asked <=>
              bool(get(build_ret.game, "id", None)) /\ Itad_is_enabled(itad_client)
        /\ ~build_ret.shops_asked \/ LookupFailed \/ build_ret.shops = {} =>
              /\ build_ret.shops = {}
              /\ \A k \in {"is_multi_store_pc", "exclusive_steam",
                           "is_multiplatform_refined", "is_cross_platform"} :
                    PlatformFlag(k) = 0

\* Steam and a console storefront list the game: exclusive, not multi-store
C17_Witness ==
    /\ BuildReturned
    /\ build_ret.shops = {"Steam", "Nintendo eShop"}
    /\ PlatformFlag("exclusive_steam") = 1
    /\ PlatformFlag("is_multi_store_pc") = 0
    /\ PlatformFlag("is_multiplatform_refined") = 0

-----------------------------------------------------------------------------
(* Claims about ItadClient, checked under SpecItad *)

\* C10: no call of the ITAD client raises to its caller when the request times out,
\* gets an error status or gets a malformed payload
C10_ItadNeverRaises == itad_ret.op # "none" => itad_ret.status # "raise"

-----------------------------------------------------------------------------
(* Further claims about InsightService, checked under SpecInsight *)

\* C11: _extract_contextual_factors returns a list and never raises, whatever
\* combination of its inputs is missing, null, a non-numeric string or a number
C11_FactorsNeverRaise ==
    insight_ret.op = "_extract_contextual_factors" => insight_ret.status = "return"

InsightsReturned ==
    /\ insight_ret.op \in {"build_insights", "build_combined_insights"}
    /\ insight_ret.status = "return"

\* C12: in both build_insights and build_combined_insights the news collaborator is
\* invoked only when a non-empty game name is supplied and the news client is
\* configured; otherwise no fetch is made and the news list is empty
C12_NewsOnlyWithGameName ==
    InsightsReturned =>
        IF bool(insight_ret.game_name) /\ News_is_enabled(news_client)
        THEN insight_ret.news_fetched
        ELSE ~insight_ret.news_fetched /\ insight_ret.news = <<>>

\* the bullets of the deterministic fallback
LowChance == Sentence("Low chance of a discount in the next 30 days.")

StrongChance == Sentence("Strong chance of a discount within the next 30 days.")

SomeChance == Sentence("Some chance of a discount in the next 30 days, but not high-confidence.")

LooksUnlikely == Sentence("Even over 60 days, a meaningful discount looks unlikely.")

QuitePlausible == Sentence("Within 60 days, a discount becomes quite plausible based on similar titles.")

RemainUncertain == Sentence("Over 60 days, odds improve somewhat but remain uncertain.")

HoldOff == Sentence("If you're price-sensitive and can wait, holding off may be reasonable; otherwise buying near launch is still defensible.")

BuyNearLaunch == Sentence("If you want to play soon, buying at or near launch is reasonable; waiting solely for a big discount may not pay off quickly.")

FallbackCalled == insight_ret.op = "_fallback_combined_bullets"

\* C18: the fallback returns three bullets in this order: the 30-day bullet (low
\* chance below 20, strong chance above 60, some chance from 20 to 60 inclusive), the
\* 60-day bullet (unlikely below 30, quite plausible above 60, remain uncertain from 30
\* to 60 inclusive) and the action bullet (hold off iff either decision is positive,
\* buy near launch otherwise); 0.10 and 0.80 with a positive 60-day decision give
\* low chance, quite plausible, hold off
C18_FallbackBullets ==
    FallbackCalled =>
        LET b == insight_ret.bullets
            s30 == insight_ret.score_30d
            s60 == insight_ret.score_60d
        IN  /\ insight_ret.status = "return"
            /\ Len(b) = 3
            /\ b[1] \in {LowChance, StrongChance, SomeChance}
            /\ b[1] = LowChance <=> s30 < 20
            /\ b[1] = StrongChance <=> s30 > 60
            /\ b[2] \in {LooksUnlikely, QuitePlausible, RemainUncertain}
            /\ b[2] = LooksUnlikely <=> s60 < 30
            /\ b[2] = QuitePlausible <=> s60 > 60
            /\ b[3] \in {HoldOff, BuyNearLaunch}
            /\ b[3] = HoldOff <=>
                  insight_ret.will_discount_30d \/ insight_ret.will_discount_60d
            /\ s30 = 10 /\ s60 = 80 /\ insight_ret.will_discount_60d =>
                  b = <<LowChance, QuitePlausible, HoldOff>>

\* the scores exactly 0.20 and 0.60 with both decisions negative: some chance,
\* remain uncertain, buy near launch
C18_Witness ==
    /\ FallbackCalled
    /\ insight_ret.score_30d = 20
    /\ insight_ret.score_60d = 60
    /\ ~insight_ret.will_discount_30d /\ ~insight_ret.will_discount_60d
    /\ insight_ret.bullets = <<SomeChance, RemainUncertain, BuyNearLaunch>>

ConfidenceCalled == insight_ret.op = "_make_confidence_comment"

\* the band of a score in hundredths and a decision, whatever the horizon
ConfidenceBand(score, will_discount) ==
    CASE score >= 85 -> "Very strong chance"
      [] score >= 65 /\ score < 85 -> "Good chance"
      [] score >= 45 /\ score < 65 /\ will_discount -> "Borderline case, but slightly in favor"
      [] score >= 45 /\ score < 65 /\ ~will_discount -> "Borderline probability"
      [] score < 45 -> "Unlikely"

\* C19: the confidence sentence is a total function of the score and the decision with
\* inclusive lower bounds: very strong chance from 0.85, good chance from 0.65,
\* borderline from 0.45 (in favor of a discount iff the decision is positive), unlikely
\* below 0.45; the horizon only appears as text
C19_ConfidenceBands ==
    ConfidenceCalled =>
        /\ insight_ret.status = "return"
        /\ insight_ret.sale_confidence_comment.band =
              ConfidenceBand(insight_ret.score, insight_ret.will_discount)
        /\ insight_ret.sale_confidence_comment.horizon \in HorizonTexts

\* exactly 0.45 with a positive decision, asked for the 60-day horizon: borderline,
\* in favor
C19_Witness ==
    /\ ConfidenceCalled
    /\ insight_ret.score = 45
    /\ insight_ret.will_discount
    /\ insight_ret.sale_confidence_comment.horizon = Str(<<"6", "0", "d">>)
    /\ insight_ret.sale_confidence_comment.band = "Borderline case, but slightly in favor"

\* the characters of a str value, none for None
TextOf(v) == IF v.t = "str" THEN v.s ELSE <<>>

\* the filter of the statement: the title is non-empty, and the trimmed game name is non-empty
\* and occurs in it, or a sale keyword occurs in it, ignoring case
Relevant(title, game_name) ==
    /\ Len(TextOf(title)) > 0
    /\ \/ /\ Len(strip(TextOf(game_name))) > 0
          /\ contains(lower(TextOf(title)), lower(strip(TextOf(game_name))))
       \/ \E k \in 1 .. Len(sale_keywords) : contains(lower(TextOf(title)), sale_keywords[k])

\* C20: _is_relevant_article is true exactly when the title is non-empty and either
\* the trimmed game name is non-empty and occurs in the title ignoring case, or the
\* title contains a keyword of the sale list ignoring case; fetch_game_news returns
\* at most limit items, each with a non-empty title that passes this filter
C20_RelevanceFilter ==
    /\ insight_ret.op = "_is_relevant_article" =>
          /\ insight_ret.status = "return"
          /\ insight_ret.relevant <=> Relevant(insight_ret.title, insight_ret.game_name)
    /\ insight_ret.op = "fetch_game_news" =>
          /\ insight_ret.status = "return"
          /\ Len(insight_ret.news) <= insight_ret.limit
          /\ \A i \in 1 .. Len(insight_ret.news) :
                /\ Len(insight_ret.news[i].title) > 0
                /\ Relevant(Str(insight_ret.news[i].title), insight_ret.game_name)
                /\ \E j \in 1 .. Len(insight_ret.http.articles) :
                      /\ j <= insight_ret.limit
                      /\ insight_ret.http.articles[j] = Article(Str(insight_ret.news[i].title))

\* two relevant headlines in the payload and limit 1: one item, kept because its title
\* names the game in another case
C20_Witness ==
    /\ insight_ret.op = "fetch_game_news"
    /\ insight_ret.limit = 1
    /\ insight_ret.game_name = Str(<<"H", "a", "d", "e", "s">>)
    /\ insight_ret.http.articles =
          <<Article(Str(<<"H", "A", "D", "E", "S">>)), Article(Str(<<"D", "i", "s", "c", "o", "u", "n", "t">>))>>
    /\ insight_ret.news = <<[title |-> <<"H", "A", "D", "E", "S">>]>>

-----------------------------------------------------------------------------
(* Further claims about ItadClient, checked under SpecItad *)

PickCalled == itad_ret.op = "pick_current_price"

\* every deal of the block has a dict or no shop, and a dict or no price
WellFormedDeals ==
    \A i \in 1 .. Len(itad_ret.deals) :
        /\ itad_ret.deals[i].shop_t \in {"dict", "None"}
        /\ itad_ret.deals[i].price_t \in {"dict", "None"}

\* the deals of the primary storefront, and the deals with a numeric amount
PrimaryDeals ==
    { i \in 1 .. Len(itad_ret.deals) :
        itad_ret.deals[i].shop_t = "dict" /\ itad_ret.deals[i].id \in prefer_shops }

NumericDeals ==
    { i \in 1 .. Len(itad_ret.deals) :
        itad_ret.deals[i].price_t = "dict" /\ itad_ret.deals[i].amount.t = "num" }

\* C21: pick_current_price returns the price of shop 61 whenever a deal from it is
\* present, otherwise the lowest amount over all deals, and a non-null amount whenever
\* at least one deal has a numeric amount
C21_PickCurrentPrice ==
    PickCalled /\ WellFormedDeals =>
        /\ itad_ret.status = "return"
        /\ PrimaryDeals # {} =>
              \E i \in PrimaryDeals :
                  /\ \A j \in PrimaryDeals : i <= j
                  /\ itad_ret.price.shop = name_of(itad_ret.deals[i])
                  /\ itad_ret.price.amount =
                        IF itad_ret.deals[i].price_t = "dict" THEN itad_ret.deals[i].amount
                        ELSE None
        /\ PrimaryDeals = {} /\ NumericDeals # {} =>
              /\ itad_ret.price.amount.t = "num"
              /\ \A j \in NumericDeals : itad_ret.price.amount.n <= itad_ret.deals[j].amount.n
              /\ \E j \in NumericDeals : itad_ret.price.amount = itad_ret.deals[j].amount
        /\ NumericDeals # {} => itad_ret.price.amount # None
        /\ NumericDeals = {} /\ PrimaryDeals = {} => itad_ret.price = NoPrice


(***************************************************************************)
(* Further claims about ModelService, checked under Spec                   *)
(***************************************************************************)

\* C24: once load() has succeeded, every predict call, whatever came before it
\* and whether it returns or raises, leaves model_30d, model_60d, feature_names
\* and the caller's feature map as they were, decides with the default threshold
\* when none is given, and has the outcome that its own arguments and the
\* classifier's answer determine.
C24_PredictIndependent ==
    [][(load_completed /\ predict_ret'.op = "predict") =>
         /\ model_30d' = model_30d
         /\ model_60d' = model_60d
         /\ feature_names' = feature_names
         /\ predict_ret'.features_after = predict_ret'.features
         /\ predict_ret' = predict_outcome(model_30d, model_60d, feature_names, itad,
                                           predict_ret'.horizon, predict_ret'.features,
                                           predict_ret'.threshold_arg,
                                           predict_ret'.exc = "Exception",
                                           predict_ret'.score)
         /\ predict_ret'.status = "return" =>
               /\ predict_ret'.threshold = IF predict_ret'.threshold_arg = None
                                           THEN default_threshold
                                           ELSE float(predict_ret'.threshold_arg).n
               /\ predict_ret'.will_discount = (predict_ret'.score >= predict_ret'.threshold)]_vars

\* a predict call returned a decision on a service whose ITAD client has a key
C24_Witness ==
    /\ load_completed
    /\ predict_ret.op = "predict"
    /\ predict_ret.status = "return"
    /\ Predictor_is_enabled(itad)
    /\ DOMAIN predict_ret.features # {}

\* C29: load() is all-or-nothing: when a load() attempt fails at any step,
\* model_30d, model_60d and feature_names are exactly as they were before that
\* attempt.
C29_LoadAllOrNothing ==
    [][(predict_ret'.op = "load" /\ predict_ret'.status = "raise") =>
         /\ model_30d' = model_30d
         /\ model_60d' = model_60d
         /\ feature_names' = feature_names]_vars

(***************************************************************************)
(* Further claims about FeatureBuilder, checked under SpecBuilder          *)
(***************************************************************************)

\* the date the precompute job and the title-search endpoint supply: the payload's
\* releaseDate, read as YYYY-MM-DD
SuppliedDate ==
    LET raw == get(build_ret.game, "releaseDate", None) IN
    IF ~bool(raw) \/ raw.t # "str" THEN NoDate
    ELSE strptime(SubSeq(raw.s, 1, IF Len(raw.s) < 10 THEN Len(raw.s) ELSE 10))

\* the December-1 default was taken
DateDefaulted == build_ret.utcnow_year # 0

\* C26: the release date the callers place under 'releaseDate' is the date from
\* which build_from_itad derives release_year, release_month, release_quarter,
\* release_weekday and the seasonal flags; the December-1 default is used only
\* when no parseable date was supplied.
C26_ReleaseDateUsed ==
    BuildReturned /\ SuppliedDate.ok =>
        /\ ~DateDefaulted
        /\ build_ret.f["release_year"] = Num(SuppliedDate.year)
        /\ build_ret.f["release_month"] = Num(SuppliedDate.month)
        /\ build_ret.f["release_quarter"] = Num(((SuppliedDate.month - 1) \div 3) + 1)
        /\ build_ret.f["release_weekday"] =
              Num(weekday(SuppliedDate.year, SuppliedDate.month, SuppliedDate.day))
        /\ build_ret.f["is_holiday_season"] =
              Num(IF SuppliedDate.month \in {11, 12} THEN 1 ELSE 0)
        /\ build_ret.f["is_summer_sale_window"] =
              Num(IF SuppliedDate.month \in {6, 7} THEN 1 ELSE 0)

(***************************************************************************)
(* The candidate picked from the results of search_game, under SpecItad    *)
(***************************************************************************)

CandidatePicked == itad_ret.op = "_pick_itad_candidate"

\* the results whose name equals the requested name ignoring case
ExactMatches ==
    { i \in 1 .. Len(itad_ret.results) :
        lower(itad_ret.results[i].title.s) = lower(itad_ret.name) }

\* C30: given the result list of search_game, _pick_itad_candidate of both modules
\* returns the result whose name equals the requested name ignoring case whenever
\* there is one, the first result only when there is no exact match, and None
\* only for an empty list.
C30_PickCandidate ==
    CandidatePicked =>
        /\ itad_ret.candidate = NoCandidate <=> Len(itad_ret.results) = 0
        /\ ExactMatches # {} =>
              itad_ret.candidate =
                  itad_ret.results[CHOOSE i \in ExactMatches : \A j \in ExactMatches : i <= j]
        /\ ExactMatches = {} /\ Len(itad_ret.results) > 0 =>
              itad_ret.candidate = itad_ret.results[1]

\* the statement of C30 for the function of api/main.py alone
ApiPicksMatch == itad_ret.module = "api" => C30_PickCandidate

(***************************************************************************)
(* Further claims about InsightService, checked under SpecInsight          *)
(***************************************************************************)

CalledAgain == insight_ret.op = "_extract_contextual_factors again"

FactorsReturned ==
    /\ insight_ret.op = "_extract_contextual_factors"
    /\ insight_ret.status = "return"

\* the rule family of a factor, in the fixed order of the families
family(factor) ==
    CASE factor = "new or upcoming title" -> 1
      [] factor \in {"major publisher", "large publisher", "mid-sized publisher",
                     "smaller publisher"} -> 2
      [] factor = "Early Access" -> 3
      [] factor = "established franchise" -> 4
      [] factor = "major Steam sale window" -> 5
      [] OTHER -> 0

PublisherFactors ==
    { insight_ret.contextual_factors[i] : i \in 1 .. Len(insight_ret.contextual_factors) }
    \cap {"major publisher", "large publisher", "mid-sized publisher", "smaller publisher"}

\* the factor of the first bin equal to 1 in the order Major, Large, Medium, Small
FirstBinFactor ==
    IF equals_one(insight_ret.features, "publisher_size_bin__Major") THEN {"major publisher"}
    ELSE IF equals_one(insight_ret.features, "publisher_size_bin__Large")
    THEN {"large publisher"}
    ELSE IF equals_one(insight_ret.features, "publisher_size_bin__Medium")
    THEN {"mid-sized publisher"}
    ELSE IF equals_one(insight_ret.features, "publisher_size_bin__Small")
    THEN {"smaller publisher"}
    ELSE {}

\* C27: the list returned by _extract_contextual_factors is a subsequence of the
\* order recency, publisher-size, early-access, franchise, sale-window with at most
\* one string per family (at most 5 in total), and its publisher-size string is the
\* one of the first bin equal to 1 in the order Major, Large, Medium, Small.
C27_FactorOrder ==
    FactorsReturned =>
        LET factors == insight_ret.contextual_factors IN
        /\ Len(factors) <= 5
        /\ \A i \in 1 .. Len(factors) : family(factors[i]) \in 1 .. 5
        /\ \A i \in 1 .. Len(factors) : \A j \in 1 .. Len(factors) :
              i < j => family(factors[i]) < family(factors[j])
        /\ PublisherFactors = FirstBinFactor

\* all five families fired while the Large and Small bins were both 1
C27_Witness ==
    /\ FactorsReturned
    /\ Len(insight_ret.contextual_factors) = 5
    /\ insight_ret.contextual_factors[2] = "large publisher"
    /\ equals_one(insight_ret.features, "publisher_size_bin__Small")

SaleNotes ==
    { i \in 1 .. Len(insight_ret.contextual_factors) :
        insight_ret.contextual_factors[i] = "major Steam sale window" }

\* a sale flag of the map equals 1
SomeFlagIsOne ==
    \E i \in 1 .. Len(sale_flags) : equals_one(insight_ret.features, sale_flags[i])

\* int() accepts every sale flag the map holds
FlagsReadable ==
    \A i \in 1 .. Len(sale_flags) :
        int(get(insight_ret.features, sale_flags[i], Num(0))).exc = "none"

\* C28 as stated: whenever at least one of the four sale flags equals 1 the factors
\* contain exactly one sale-window note, whatever the other three flags hold; when
\* none equals 1 they contain no such note.
C28_SaleNoteWhenever ==
    FactorsReturned =>
        Cardinality(SaleNotes) = IF SomeFlagIsOne THEN 1 ELSE 0

\* C28, amended: when every sale flag the map holds is missing or a number, the
\* factors contain exactly one sale-window note if at least one flag is 1 and none
\* otherwise; when some flag is null or non-numeric the factors contain no
\* sale-window note, even if another flag is 1.
C28_SaleNoteWhenReadable ==
    FactorsReturned =>
        Cardinality(SaleNotes) = IF FlagsReadable /\ SomeFlagIsOne THEN 1 ELSE 0

\* one note although two flags are 1
C28_Witness ==
    /\ FactorsReturned
    /\ equals_one(insight_ret.features, "is_autumn_sale_window")
    /\ equals_one(insight_ret.features, "is_holiday_season")
    /\ Cardinality(SaleNotes) = 1

\* no note although a flag is 1: another flag is null
C28_SkippedWitness ==
    /\ FactorsReturned
    /\ SomeFlagIsOne
    /\ ~FlagsReadable
    /\ SaleNotes = {}

(***************************************************************************)
(* Claims about the HTTP endpoints, checked under SpecApi                  *)
(***************************************************************************)

PredictingEndpoints == {"POST /predict", "GET /predict/search", "POST /predict/from_itad"}

\* C22: at every endpoint that invokes the predictor, a BadRequestError of
\* predict reaches the client as a 4xx response and a ModelNotLoadedError as a
\* 503 response, never as a 500.
C22_PredictFailuresMapped ==
    predict_ret.op \in PredictingEndpoints =>
        /\ predict_ret.exc = "BadRequestError" => predict_ret.status_code \in 400 .. 499
        /\ predict_ret.exc = "ModelNotLoadedError" => predict_ret.status_code = 503

\* C23: GET /health responds 200 with the fields status, model_30d_loaded and
\* model_60d_loaded in every service state.
C23_HealthAlwaysOk ==
    predict_ret.op = "GET /health" =>
        /\ predict_ret.status_code = 200
        /\ predict_ret.body = {"status", "model_30d_loaded", "model_60d_loaded"}

====
